---- MODULE Spec2Model ----
(***************************************************************************)
(* Model of the rpgm-enc core of rpgm-viewer: the Decrypter (fake-header   *)
(* protocol, XOR transform, true-header restoration), the Key it owns and  *)
(* its detection, the FileExtension catalog, the RPGFile, and the asset    *)
(* handlers of the viewer's CryptManager.                                  *)
(* Strings are sequences of one-character strings, byte buffers are        *)
(* sequences of integers in 0..255, Option<T> is <<>> (None) or <<x>>      *)
(* (Some(x)), and a Result is a record with tag "Ok", "Err" or "Panic"     *)
(* (an index or slice out of range aborts the call).                       *)
(***************************************************************************)
EXTENDS Integers, Sequences, FiniteSets, TLC

VARIABLES decrypter, file_type, orig, data, hist, result, verdict, fed,
          key_str, key_out, found,
          ext_str, tags, calls,
          rpg_file, disk, settings,
          thumbnail_cache, channels, worker, now, log,
          crypt_manager, files

(* a caller of the Decrypter *)
coreVars == <<decrypter, file_type, orig, data, hist, result, verdict, fed>>

(* a caller of Key and of key detection *)
keyVars == <<key_str, key_out, found>>

(* a caller of FileExtension *)
extVars == <<ext_str, tags, calls>>

(* an RPGFile, the file it is read from and written to, and the folder's  *)
(* CryptSettings                                                          *)
fileVars == <<rpg_file, disk, settings>>

(* the ThumbnailCache of the file browser, the two channels between it and *)
(* its worker thread, the worker thread, the clock, and the last call made *)
(* by the GUI thread                                                      *)
thumbVars == <<thumbnail_cache, channels, worker, now, log>>

(* the CryptManager and the files on disk *)
managerVars == <<crypt_manager, files>>

guiVars == <<thumbVars, managerVars>>

vars == <<coreVars, keyVars, extVars, fileVars, guiVars>>

----------------------------------------------------------------------------
(* Option and Result values *)

None == <<>>

Some(x) == <<x>>

Unwrap(o) == o[1]

Ok(v) == [tag |-> "Ok", err |-> "", val |-> v]

Err(e) == [tag |-> "Err", err |-> e, val |-> <<>>]

Panic == [tag |-> "Panic", err |-> "", val |-> <<>>]

NoResult == [tag |-> "None", err |-> "", val |-> <<>>]

Min(a, b) == IF a <= b THEN a ELSE b

----------------------------------------------------------------------------
(* Bytes and characters *)

RECURSIVE XorBits(_, _, _)
XorBits(a, b, n) ==
    IF n = 0 THEN 0
    ELSE (((a % 2) + (b % 2)) % 2) + 2 * XorBits(a \div 2, b \div 2, n - 1)

(* u8 ^ u8 *)
Xor(a, b) == XorBits(a, b, 8)

DecDigits == <<"0","1","2","3","4","5","6","7","8","9">>

LowerHex == <<"a","b","c","d","e","f">>

UpperHex == <<"A","B","C","D","E","F">>

Index(seq, c) == CHOOSE i \in 1..Len(seq) : seq[i] = c

InSeq(seq, c) == \E i \in 1..Len(seq) : seq[i] = c

(* char::is_ascii_hexdigit *)
is_ascii_hexdigit(c) == InSeq(DecDigits, c) \/ InSeq(LowerHex, c) \/ InSeq(UpperHex, c)

(* char::to_digit(16), for a hex digit *)
to_digit(c) ==
    IF InSeq(DecDigits, c) THEN Index(DecDigits, c) - 1
    ELSE IF InSeq(LowerHex, c) THEN Index(LowerHex, c) + 9
    ELSE Index(UpperHex, c) + 9

RECURSIVE DigitsValue(_)
DigitsValue(s) ==
    IF s = <<>> THEN 0
    ELSE 16 * DigitsValue(SubSeq(s, 1, Len(s) - 1)) + to_digit(s[Len(s)])

(* u8::from_str_radix(s, 16): an optional "+" sign, then at least one hex   *)
(* digit and nothing else, the value fitting a u8.                          *)
from_str_radix(s) ==
    LET digits == IF s # <<>> /\ s[1] = "+" THEN Tail(s) ELSE s
    IN  IF digits = <<>> \/ \E i \in 1..Len(digits) : ~is_ascii_hexdigit(digits[i])
          THEN [ok |-> FALSE, val |-> 0]
        ELSE IF Len(digits) > 2 /\ DigitsValue(digits) > 255
          THEN [ok |-> FALSE, val |-> 0]
        ELSE [ok |-> TRUE, val |-> DigitsValue(digits)]

(* str::split(' '): the pieces between the separators, empty pieces kept *)
RECURSIVE SplitFrom(_, _, _)
SplitFrom(s, i, cur) ==
    IF i > Len(s) THEN <<cur>>
    ELSE IF s[i] = " " THEN <<cur>> \o SplitFrom(s, i + 1, <<>>)
    ELSE SplitFrom(s, i + 1, Append(cur, s[i]))

Split(s) == SplitFrom(s, 1, <<>>)

(* slice::chunks(2) *)
RECURSIVE Chunks2(_)
Chunks2(s) ==
    IF s = <<>> THEN <<>>
    ELSE IF Len(s) <= 2 THEN <<s>>
    ELSE <<SubSeq(s, 1, 2)>> \o Chunks2(SubSeq(s, 3, Len(s)))

(* Iterator::filter_map over parse results: the values that parsed *)
RECURSIVE FilterParsed(_)
FilterParsed(chunks) ==
    IF chunks = <<>> THEN <<>>
    ELSE LET p == from_str_radix(Head(chunks))
         IN  (IF p.ok THEN <<p.val>> ELSE <<>>) \o FilterParsed(Tail(chunks))

----------------------------------------------------------------------------
(* Key (types.rs) *)

Key_is_valid_hex(s) == \A i \in 1..Len(s) : is_ascii_hexdigit(s[i])

(* Key::new: Option<Key> *)
Key_new(key) ==
    IF ~Key_is_valid_hex(key) THEN None
    ELSE Some([raw |-> key, bytes |-> FilterParsed(Chunks2(key))])

----------------------------------------------------------------------------
(* Decrypter (decrypter.rs) *)

DEFAULT_HEADER_LEN == 16

DEFAULT_SIGNATURE ==
    <<"5","2","5","0","4","7","4","d","5","6","0","0","0","0","0","0">>

DEFAULT_VERSION == <<"0","0","0","3","0","1">>

DEFAULT_REMAIN == <<"0","0","0","0","0","0","0","0","0","0">>

PNG_HEADER_BYTES ==
    <<"8","9"," ","5","0"," ","4","E"," ","4","7"," ","0","D"," ","0","A"," ",
      "1","A"," ","0","A"," ","0","0"," ","0","0"," ","0","0"," ","0","D"," ",
      "4","9"," ","4","8"," ","4","4"," ","5","2">>

OGG_HEADER_BYTES ==
    <<"4","F"," ","6","7"," ","6","7"," ","5","3"," ","0","0"," ","0","0"," ",
      "0","0"," ","0","0"," ","0","0"," ","0","0"," ","0","0"," ","0","0"," ",
      "0","0"," ","0","0"," ","0","0"," ","0","0"," ","0","0"," ","0","0"," ",
      "0","0"," ","0","0"," ","0","0"," ","0","0"," ","0","0"," ","0","0"," ",
      "0","0"," ","0","0"," ","0","0">>

M4A_HEADER_BYTES ==
    <<"0","0"," ","0","0"," ","0","0"," ","2","0"," ","6","6"," ","7","4"," ",
      "7","9"," ","7","0"," ","4","D"," ","3","4"," ","4","1"," ","2","0"," ",
      "0","0"," ","0","0"," ","0","0"," ","0","0">>

(* Decrypter::new *)
Decrypter_new(key) ==
    [key |-> key, ignore_fake_header |-> FALSE, header_len |-> None,
     signature |-> None, version |-> None, remain |-> None,
     png_header_len |-> None, ogg_header_len |-> None, m4a_header_len |-> None]

get_header_len(d) ==
    IF d.header_len = None THEN DEFAULT_HEADER_LEN ELSE Unwrap(d.header_len)

get_signature(d) ==
    IF d.signature = None THEN DEFAULT_SIGNATURE ELSE Unwrap(d.signature)

get_version(d) ==
    IF d.version = None THEN DEFAULT_VERSION ELSE Unwrap(d.version)

get_remain(d) ==
    IF d.remain = None THEN DEFAULT_REMAIN ELSE Unwrap(d.remain)

(* format!("{}{}{}", signature, version, remain) *)
header_structure(d) == get_signature(d) \o get_version(d) \o get_remain(d)

(* build_fake_header decoding every pair of the structure string *)
build_fake_header_untruncated(d) ==
    LET hl == get_header_len(d)
        hs == header_structure(d)
    IN  IF \E i \in 0..(hl - 1) : i * 2 + 2 > Len(hs) THEN Panic
        ELSE Ok([i \in 1..(Len(hs) \div 2) |->
                   LET p == from_str_radix(SubSeq(hs, 2 * i - 1, 2 * i))
                   IN  IF p.ok THEN p.val ELSE 0])

(* build_fake_header: the slice [i*2..i*2+2] of the structure string is    *)
(* taken for every i < header_len, and is out of range when the string has *)
(* fewer than 2*header_len characters.                                     *)
build_fake_header(d) ==
    LET hl == get_header_len(d)
        hs == header_structure(d)
    IN  IF \E i \in 0..(hl - 1) : i * 2 + 2 > Len(hs) THEN Panic
        ELSE Ok([i \in 1..hl |->
                   LET p == from_str_radix(SubSeq(hs, 2 * i - 1, 2 * i))
                   IN  IF p.ok THEN p.val ELSE 0])

(* verify_fake_header rejecting a header of exactly header_len bytes *)
verify_fake_header_le(d, file_header) ==
    LET fake_header == build_fake_header(d)
        hl == get_header_len(d)
    IN  IF fake_header.tag = "Panic" THEN [panic |-> TRUE, val |-> FALSE]
        ELSE IF Len(file_header) <= hl THEN [panic |-> FALSE, val |-> FALSE]
        ELSE [panic |-> FALSE,
              val |-> \A i \in 1..hl : file_header[i] = fake_header.val[i]]

(* verify_fake_header that stops one byte short of header_len *)
verify_fake_header_short(d, file_header) ==
    LET fake_header == build_fake_header(d)
        hl == get_header_len(d)
    IN  IF fake_header.tag = "Panic" THEN [panic |-> TRUE, val |-> FALSE]
        ELSE IF Len(file_header) < hl THEN [panic |-> FALSE, val |-> FALSE]
        ELSE [panic |-> FALSE,
              val |-> \A i \in 1..(hl - 1) : file_header[i] = fake_header.val[i]]

(* verify_fake_header: [panic, val] *)
verify_fake_header(d, file_header) ==
    LET fake_header == build_fake_header(d)
        hl == get_header_len(d)
    IN  IF fake_header.tag = "Panic" THEN [panic |-> TRUE, val |-> FALSE]
        ELSE IF Len(file_header) < hl THEN [panic |-> FALSE, val |-> FALSE]
        ELSE [panic |-> FALSE,
              val |-> \A i \in 1..hl : file_header[i] = fake_header.val[i]]

(* xor_bytes bounded by the buffer and the key but not by header_len *)
xor_bytes_uncapped(d, buf) ==
    IF d.key = None THEN buf
    ELSE LET key_bytes == Unwrap(d.key).bytes
             n == Min(Len(buf), Len(key_bytes))
         IN  [i \in 1..Len(buf) |->
                IF i <= n THEN Xor(buf[i], key_bytes[i]) ELSE buf[i]]

(* xor_bytes: the buffer after the in-place XOR *)
xor_bytes(d, buf) ==
    IF d.key = None THEN buf
    ELSE LET key_bytes == Unwrap(d.key).bytes
             n == Min(Min(get_header_len(d), Len(buf)), Len(key_bytes))
         IN  [i \in 1..Len(buf) |->
                IF i <= n THEN Xor(buf[i], key_bytes[i]) ELSE buf[i]]

(* decrypt that strips the fake header and leaves the content as it is *)
decrypt_no_xor(d, buf) ==
    LET hl == get_header_len(d)
        v == verify_fake_header(d, SubSeq(buf, 1, hl))
    IN  IF buf = <<>> THEN Err("EmptyFile")
        ELSE IF ~d.ignore_fake_header /\ Len(buf) < hl THEN Panic
        ELSE IF ~d.ignore_fake_header /\ v.panic THEN Panic
        ELSE IF ~d.ignore_fake_header /\ ~v.val THEN Err("InvalidHeader")
        ELSE IF Len(buf) < hl THEN Panic
        ELSE Ok(SubSeq(buf, hl + 1, Len(buf)))

(* decrypt that looks at the header before it looks at the length *)
decrypt_header_first(d, buf) ==
    LET hl == get_header_len(d)
        v == verify_fake_header(d, SubSeq(buf, 1, hl))
    IN  IF ~d.ignore_fake_header /\ Len(buf) < hl THEN Panic
        ELSE IF ~d.ignore_fake_header /\ v.panic THEN Panic
        ELSE IF ~d.ignore_fake_header /\ ~v.val THEN Err("InvalidHeader")
        ELSE IF buf = <<>> THEN Err("EmptyFile")
        ELSE IF Len(buf) < hl THEN Panic
        ELSE Ok(xor_bytes(d, SubSeq(buf, hl + 1, Len(buf))))

(* decrypt *)
decrypt(d, buf) ==
    LET hl == get_header_len(d)
        v == verify_fake_header(d, SubSeq(buf, 1, hl))
    IN  IF buf = <<>> THEN Err("EmptyFile")
        ELSE IF ~d.ignore_fake_header /\ Len(buf) < hl THEN Panic
        ELSE IF ~d.ignore_fake_header /\ v.panic THEN Panic
        ELSE IF ~d.ignore_fake_header /\ ~v.val THEN Err("InvalidHeader")
        ELSE IF Len(buf) < hl THEN Panic
        ELSE Ok(xor_bytes(d, SubSeq(buf, hl + 1, Len(buf))))

(* encrypt that XORs after the fake header is in place *)
encrypt_xor_after_header(d, buf) ==
    LET hl == get_header_len(d)
        fake_header == build_fake_header(d)
        res == xor_bytes(d, fake_header.val \o buf)
        v == verify_fake_header(d, SubSeq(res, 1, hl))
    IN  IF buf = <<>> THEN Err("EmptyFile")
        ELSE IF fake_header.tag = "Panic" THEN Panic
        ELSE IF Len(res) < hl \/ v.panic THEN Panic
        ELSE IF ~v.val THEN Err("InvalidHeader")
        ELSE Ok(res)

(* encrypt *)
encrypt(d, buf) ==
    LET hl == get_header_len(d)
        content == xor_bytes(d, buf)
        fake_header == build_fake_header(d)
        res == fake_header.val \o content
        v == verify_fake_header(d, SubSeq(res, 1, hl))
    IN  IF buf = <<>> THEN Err("EmptyFile")
        ELSE IF fake_header.tag = "Panic" THEN Panic
        ELSE IF Len(res) < hl \/ v.panic THEN Panic
        ELSE IF ~v.val THEN Err("InvalidHeader")
        ELSE Ok(res)

(* get_header_bytes *)
get_header_bytes(header_str, header_len) ==
    LET header_to_restore == Split(header_str)
        len == Min(header_len, Len(header_to_restore))
    IN  [i \in 1..len |->
           LET p == from_str_radix(header_to_restore[i])
           IN  IF p.ok THEN p.val ELSE 0]

FileExtensions ==
    {"PNG", "OGG", "M4A", "RPGMVP", "RPGMVO", "RPGMVM", "PNG_", "OGG_", "M4A_"}

PngFamily == {"PNG", "RPGMVP", "PNG_"}

OggFamily == {"OGG", "RPGMVO", "OGG_"}

M4aFamily == {"M4A", "RPGMVM", "M4A_"}

OggMagic == <<79, 103, 103, 83>>

PngMagic == <<137, 80, 78, 71, 13, 10, 26, 10>>

FtypMagic == <<102, 116, 121, 112>>

(* the magic test with the M4A atom tag looked for at bytes 0..4 *)
has_correct_header_m4a_at_0(buf, ft) ==
    IF ft \in OggFamily /\ Len(buf) >= 4 THEN SubSeq(buf, 1, 4) = OggMagic
    ELSE IF ft \in PngFamily /\ Len(buf) >= 8 THEN SubSeq(buf, 1, 8) = PngMagic
    ELSE IF ft \in M4aFamily /\ Len(buf) >= 8 THEN SubSeq(buf, 1, 4) = FtypMagic
    ELSE FALSE

(* restore_header, lines 141-152: the match with its length guards *)
has_correct_header(buf, ft) ==
    IF ft \in OggFamily /\ Len(buf) >= 4 THEN SubSeq(buf, 1, 4) = OggMagic
    ELSE IF ft \in PngFamily /\ Len(buf) >= 8 THEN SubSeq(buf, 1, 8) = PngMagic
    ELSE IF ft \in M4aFamily /\ Len(buf) >= 8 THEN SubSeq(buf, 5, 8) = FtypMagic
    ELSE FALSE

(* restore_header, lines 159-171 *)
correct_header_len(d, ft) ==
    IF ft \in PngFamily
      THEN (IF d.png_header_len = None THEN get_header_len(d)
            ELSE Unwrap(d.png_header_len))
    ELSE IF ft \in OggFamily
      THEN (IF d.ogg_header_len = None THEN 28 ELSE Unwrap(d.ogg_header_len))
    ELSE (IF d.m4a_header_len = None THEN get_header_len(d)
          ELSE Unwrap(d.m4a_header_len))

header_bytes(ft) ==
    IF ft \in PngFamily THEN PNG_HEADER_BYTES
    ELSE IF ft \in OggFamily THEN OGG_HEADER_BYTES
    ELSE M4A_HEADER_BYTES

(* restore_header that never strips the fake header *)
restore_header_keep_fake(d, buf, ft) ==
    LET header == get_header_bytes(header_bytes(ft), correct_header_len(d, ft))
    IN  IF buf = <<>> THEN Err("EmptyFile")
        ELSE IF has_correct_header(buf, ft) THEN Ok(buf)
        ELSE Ok(header \o buf)

(* restore_header answering InvalidHeader to a buffer shorter than the     *)
(* fake header                                                             *)
restore_header_short_invalid(d, buf, ft) ==
    LET fake_header_len == get_header_len(d)
        header == get_header_bytes(header_bytes(ft), correct_header_len(d, ft))
        v == IF Len(buf) >= fake_header_len
               THEN verify_fake_header(d, SubSeq(buf, 1, fake_header_len))
             ELSE [panic |-> FALSE, val |-> FALSE]
    IN  IF buf = <<>> THEN Err("EmptyFile")
        ELSE IF has_correct_header(buf, ft) THEN Ok(buf)
        ELSE IF v.panic THEN Panic
        ELSE IF Len(buf) < fake_header_len THEN Err("InvalidHeader")
        ELSE IF v.val THEN Ok(header \o SubSeq(buf, fake_header_len + 1, Len(buf)))
        ELSE Ok(header \o buf)

(* restore_header *)
restore_header(d, buf, ft) ==
    LET fake_header_len == get_header_len(d)
        header == get_header_bytes(header_bytes(ft), correct_header_len(d, ft))
        v == IF Len(buf) >= fake_header_len
               THEN verify_fake_header(d, SubSeq(buf, 1, fake_header_len))
             ELSE [panic |-> FALSE, val |-> FALSE]
    IN  IF buf = <<>> THEN Err("EmptyFile")
        ELSE IF has_correct_header(buf, ft) THEN Ok(buf)
        ELSE IF v.panic THEN Panic
        ELSE IF v.val /\ Len(buf) < fake_header_len THEN Err("InvalidHeader")
        ELSE IF v.val THEN Ok(header \o SubSeq(buf, fake_header_len + 1, Len(buf)))
        ELSE Ok(header \o buf)

----------------------------------------------------------------------------
(* Bounds and the inputs drawn within them *)

MaxOps == 2

MaxPayload == 20

MaxHeaderLen == 3

KeyStrings ==
    { <<>>,
      <<"a","b","c">>,
      <<"d","e","a","d","b","e","e","f">>,
      <<"0","1","2","3","4","5","6","7","8","9","a","b","c","d","e","f",
        "f","e","d","c","b","a","9","8","7","6","5","4","3","2","1","0">>,
      <<"0","1","2","3","4","5","6","7","8","9","a","b","c","d","e","f",
        "f","e","d","c","b","a","9","8","7","6","5","4","3","2","1","0",
        "a","5","5","a">> }

Keys == {None} \cup {Key_new(k) : k \in KeyStrings}

(* Decrypters as the viewer builds them *)
NewDecrypters == {Decrypter_new(k) : k \in Keys}

Signatures ==
    {None, Some(<<>>), Some(<<"+","f","5","g">>), Some(<<"5","2","5","0">>)}

(* Decrypters as serde can deserialize them: any field set *)
HeaderDecrypters ==
    {[Decrypter_new(k) EXCEPT !.header_len = hl, !.signature = sg,
                              !.remain = rm, !.ignore_fake_header = ig] :
        k \in {Key_new(<<"d","e","a","d","b","e","e","f">>)},
        hl \in {None} \cup {Some(n) : n \in 0..MaxHeaderLen},
        sg \in Signatures,
        rm \in {None, Some(<<>>)},
        ig \in BOOLEAN}

OverrideDecrypters ==
    {[Decrypter_new(None) EXCEPT !.png_header_len = p, !.ogg_header_len = o,
                                 !.m4a_header_len = m] :
        p \in {None, Some(8)}, o \in {None, Some(4)}, m \in {None, Some(MaxPayload)}}

Decrypters == NewDecrypters \cup HeaderDecrypters \cup OverrideDecrypters

Payload(n) == [i \in 1..n |-> (37 * i + 11) % 256]

Hello == <<72, 101, 108, 108, 111, 44, 32, 87, 111, 114, 108, 100, 33>>

PayloadLens == {0, 1, 4, 13, 15, 16, 17, MaxPayload}

PlainInputs == {Payload(n) : n \in PayloadLens} \cup {Hello}

MagicInputs ==
    UNION {{OggMagic \o Payload(n), PngMagic \o Payload(n),
            <<0, 0, 0, 32>> \o FtypMagic \o Payload(n)} : n \in {0, 13}}
    \cup {SubSeq(OggMagic, 1, 3), SubSeq(PngMagic, 1, 7) \o <<0>>,
          <<0, 0, 0, 32>> \o SubSeq(FtypMagic, 1, 3)}

Perturb(buf, i) == [buf EXCEPT ![i] = (buf[i] + 1) % 256]

(* Buffers that carry the fake header of d, or nearly do *)
FakeInputs(d) ==
    LET fh == build_fake_header(d)
        hl == get_header_len(d)
    IN  IF fh.tag # "Ok" THEN {}
        ELSE {fh.val \o Payload(n) : n \in {0, 1, 15, 17, MaxPayload}}
             \cup {fh.val \o PngMagic}
             \cup (IF hl = 0 THEN {}
                   ELSE {Perturb(fh.val, 1) \o Payload(4),
                         Perturb(fh.val, hl) \o Payload(4),
                         SubSeq(fh.val, 1, hl - 1)})

(* The tags tried with d: every tag for the Decrypters the viewer builds or *)
(* that override a true-header length, one tag per family otherwise.       *)
FileTypes(d) ==
    IF d \in HeaderDecrypters THEN {"PNG", "RPGMVO", "M4A_"} ELSE FileExtensions

Inputs(d) ==
    IF d \in NewDecrypters THEN PlainInputs \cup MagicInputs \cup FakeInputs(d)
    ELSE {Payload(0), Payload(1), Payload(MaxPayload), PngMagic \o Payload(13)}
         \cup FakeInputs(d)

----------------------------------------------------------------------------
(* The state machine: a caller holds a Decrypter and a buffer, calls one   *)
(* operation on the buffer, and may pass an Ok result to the next call.    *)

(* no Key call has been made *)
KeyIdle == key_str = <<>> /\ key_out = None /\ found = None

(* no FileExtension call has been made *)
ExtIdle == ext_str = <<>> /\ tags = <<>> /\ calls = <<>>

(* no RPGFile exists *)
FileIdle == rpg_file = None /\ disk = None /\ settings = None

(* no file browser and no CryptManager *)
GuiIdle ==
    /\ thumbnail_cache = None /\ channels = None /\ worker = None
    /\ now = 0 /\ log = None
    /\ crypt_manager = None /\ files = None

Init ==
    /\ KeyIdle /\ GuiIdle /\ ExtIdle /\ FileIdle
    /\ decrypter \in Decrypters
    /\ file_type \in FileTypes(decrypter)
    /\ data \in Inputs(decrypter)
    /\ orig = data
    /\ hist = <<>>
    /\ result = NoResult
    /\ verdict = "none"
    /\ fed = TRUE

Decrypt ==
    /\ fed
    /\ hist' = Append(hist, "decrypt")
    /\ result' = decrypt(decrypter, data)
    /\ verdict' = "none"
    /\ fed' = FALSE
    /\ UNCHANGED <<decrypter, file_type, orig, data>>
    /\ UNCHANGED <<keyVars, extVars, fileVars, guiVars>>

Encrypt ==
    /\ fed
    /\ hist' = Append(hist, "encrypt")
    /\ result' = encrypt(decrypter, data)
    /\ verdict' = "none"
    /\ fed' = FALSE
    /\ UNCHANGED <<decrypter, file_type, orig, data>>
    /\ UNCHANGED <<keyVars, extVars, fileVars, guiVars>>

RestoreHeader ==
    /\ fed
    /\ hist' = Append(hist, "restore_header")
    /\ result' = restore_header(decrypter, data, file_type)
    /\ verdict' = "none"
    /\ fed' = FALSE
    /\ UNCHANGED <<decrypter, file_type, orig, data>>
    /\ UNCHANGED <<keyVars, extVars, fileVars, guiVars>>

BuildFakeHeader ==
    /\ fed
    /\ hist' = Append(hist, "build_fake_header")
    /\ result' = build_fake_header(decrypter)
    /\ verdict' = "none"
    /\ fed' = FALSE
    /\ UNCHANGED <<decrypter, file_type, orig, data>>
    /\ UNCHANGED <<keyVars, extVars, fileVars, guiVars>>

VerifyFakeHeader ==
    /\ fed
    /\ hist' = Append(hist, "verify_fake_header")
    /\ result' = NoResult
    /\ verdict' = LET v == verify_fake_header(decrypter, data)
                  IN  IF v.panic THEN "panic" ELSE IF v.val THEN "true" ELSE "false"
    /\ fed' = FALSE
    /\ UNCHANGED <<decrypter, file_type, orig, data>>
    /\ UNCHANGED <<keyVars, extVars, fileVars, guiVars>>

(* the caller passes the returned buffer to the next call *)
Chain ==
    /\ ~fed
    /\ result.tag = "Ok"
    /\ Len(hist) < MaxOps
    /\ data' = result.val
    /\ fed' = TRUE
    /\ UNCHANGED <<decrypter, file_type, orig, hist, result, verdict>>
    /\ UNCHANGED <<keyVars, extVars, fileVars, guiVars>>

Next ==
    \/ Decrypt
    \/ Encrypt
    \/ RestoreHeader
    \/ BuildFakeHeader
    \/ VerifyFakeHeader
    \/ Chain

Spec == Init /\ [][Next]_vars

----------------------------------------------------------------------------
(* Vocabulary of the properties *)

(* op has just returned: data is its argument, result what it returned *)
Returned(op) == ~fed /\ hist # <<>> /\ hist[Len(hist)] = op

HeaderLen == get_header_len(decrypter)

(* The data model's invariant on a Decrypter: signature+version+remain     *)
(* holds at least header_len two-character pairs.                          *)
WellFormed(d) == Len(header_structure(d)) >= 2 * get_header_len(d)

KeyLen == IF decrypter.key = None THEN 0 ELSE Len(Unwrap(decrypter.key).bytes)

KeyByte(i) == Unwrap(decrypter.key).bytes[i]

(* the fake header of a Decrypter made by Decrypter::new *)
DefaultFakeHeader == <<82, 80, 71, 77, 86, 0, 0, 0, 0, 3, 1, 0, 0, 0, 0, 0>>

----------------------------------------------------------------------------
(* C1: for a Decrypter built by Decrypter::new with any key, encrypt of a  *)
(* non-empty buffer x returns Ok, and decrypt of what it returned returns  *)
(* Ok(x), byte for byte.                                                   *)
C1_RoundTrip ==
    (decrypter \in NewDecrypters /\ orig # <<>>) =>
        /\ (hist = <<"encrypt">> => result.tag = "Ok")
        /\ (hist = <<"encrypt", "decrypt">> /\ ~fed => result = Ok(orig))

(* a buffer longer than header_len under a key longer than header_len came back *)
C1_Witness ==
    /\ decrypter \in NewDecrypters
    /\ hist = <<"encrypt", "decrypt">> /\ ~fed
    /\ result = Ok(orig)
    /\ Len(orig) > HeaderLen
    /\ KeyLen > HeaderLen

(* C2: decrypt on a non-empty buffer shorter than header_len returns the   *)
(* error InvalidHeader (ignore_fake_header unset).                         *)
C2_ShortBufferInvalidHeader ==
    (Returned("decrypt") /\ ~decrypter.ignore_fake_header
       /\ data # <<>> /\ Len(data) < HeaderLen) =>
        result = Err("InvalidHeader")

(* C3: decrypt, encrypt and restore_header return EmptyFile on an empty    *)
(* buffer, whatever the key, the header configuration and the tag.         *)
C3_EmptyFileFirst ==
    (data = <<>> /\ (Returned("decrypt") \/ Returned("encrypt")
                       \/ Returned("restore_header"))) =>
        result = Err("EmptyFile")

(* EmptyFile from a Decrypter on which every later check would abort *)
C3_Witness ==
    /\ data = <<>>
    /\ Returned("decrypt")
    /\ result = Err("EmptyFile")
    /\ ~WellFormed(decrypter)
    /\ decrypter.ignore_fake_header

(* C4 as stated: with ignore_fake_header unset, for every buffer of at     *)
(* least header_len bytes decrypt returns Ok if the first header_len bytes *)
(* equal build_fake_header(), and InvalidHeader in every other case.       *)
C4_Original ==
    (Returned("decrypt") /\ ~decrypter.ignore_fake_header
       /\ WellFormed(decrypter) /\ Len(data) >= HeaderLen) =>
        IF SubSeq(data, 1, HeaderLen) = build_fake_header(decrypter).val
          THEN result.tag = "Ok"
          ELSE result = Err("InvalidHeader")

(* C4, amended: the same for every non-empty buffer of at least header_len *)
(* bytes (an empty buffer is EmptyFile also when header_len is 0).         *)
C4_DecryptIffFakeHeader ==
    (Returned("decrypt") /\ ~decrypter.ignore_fake_header
       /\ WellFormed(decrypter) /\ data # <<>> /\ Len(data) >= HeaderLen) =>
        IF SubSeq(data, 1, HeaderLen) = build_fake_header(decrypter).val
          THEN result.tag = "Ok"
          ELSE result = Err("InvalidHeader")

(* a buffer whose header differs from the fake header in its last byte only *)
C4_Witness ==
    /\ Returned("decrypt") /\ ~decrypter.ignore_fake_header
    /\ HeaderLen > 0 /\ Len(data) > HeaderLen
    /\ SubSeq(data, 1, HeaderLen - 1) = SubSeq(DefaultFakeHeader, 1, HeaderLen - 1)
    /\ data[HeaderLen] # DefaultFakeHeader[HeaderLen]
    /\ result = Err("InvalidHeader")

(* C5: when decrypt returns Ok(c) on data, c has len(data) - header_len    *)
(* bytes, c[i] = data[header_len+i] XOR key[i] for the first               *)
(* min(header_len, len(c), key_len) positions and c[i] = data[header_len+i]*)
(* for the others; with no key, c = data[header_len..].                    *)
C5_DecryptContent ==
    (Returned("decrypt") /\ result.tag = "Ok") =>
        LET c == result.val
            n == Min(Min(HeaderLen, Len(c)), KeyLen)
        IN  /\ Len(c) = Len(data) - HeaderLen
            /\ \A i \in 1..Len(c) :
                 c[i] = IF i <= n THEN Xor(data[HeaderLen + i], KeyByte(i))
                        ELSE data[HeaderLen + i]
            /\ (decrypter.key = None =>
                  c = SubSeq(data, HeaderLen + 1, Len(data)))

(* content and key both longer than header_len: the XOR stops at header_len *)
C5_Witness ==
    /\ Returned("decrypt") /\ result.tag = "Ok"
    /\ Len(result.val) > HeaderLen /\ KeyLen > HeaderLen
    /\ result.val[1] # data[HeaderLen + 1]
    /\ result.val[HeaderLen + 1] = data[2 * HeaderLen + 1]

(* C6: encrypt of a non-empty x never returns an error (the InvalidHeader  *)
(* self-check cannot fail), and for a Decrypter satisfying the data        *)
(* model's invariant it returns Ok(r) with len(r) = len(x) + header_len,   *)
(* r[0..header_len] the fake header, r[header_len+i] = x[i] XOR key[i] for *)
(* i < min(header_len, key_len, len(x)) and r[header_len+i] = x[i] for the *)
(* other i.                                                                *)
C6_EncryptContent ==
    (Returned("encrypt") /\ data # <<>>) =>
        /\ result.tag # "Err"
        /\ WellFormed(decrypter) =>
             LET r == result.val
                 n == Min(Min(HeaderLen, KeyLen), Len(data))
             IN  /\ result.tag = "Ok"
                 /\ Len(r) = Len(data) + HeaderLen
                 /\ SubSeq(r, 1, HeaderLen) = build_fake_header(decrypter).val
                 /\ \A i \in 1..Len(data) :
                      r[HeaderLen + i] = IF i <= n THEN Xor(data[i], KeyByte(i))
                                         ELSE data[i]

(* a key shorter than the buffer: the bytes after the key are copied *)
C6_Witness ==
    /\ Returned("encrypt") /\ result.tag = "Ok"
    /\ KeyLen > 0 /\ KeyLen < Len(data) /\ KeyLen < HeaderLen
    /\ result.val[HeaderLen + 1] # data[1]
    /\ result.val[HeaderLen + KeyLen + 1] = data[KeyLen + 1]

(* C7 as stated: for every combination of header_len and signature,       *)
(* version and remain strings, build_fake_header returns a header and      *)
(* verify_fake_header of that header is true.                              *)
C7_Original ==
    /\ (hist = <<"build_fake_header">> => result.tag = "Ok")
    /\ (hist = <<"build_fake_header", "verify_fake_header">> /\ ~fed =>
          verdict = "true")

(* C7, amended: the same for every configuration whose signature+version+  *)
(* remain string has at least 2*header_len characters.                     *)
C7_VerifyBuilt ==
    WellFormed(decrypter) =>
        /\ (hist = <<"build_fake_header">> => result.tag = "Ok")
        /\ (hist = <<"build_fake_header", "verify_fake_header">> /\ ~fed =>
              verdict = "true")

(* a configuration other than the default one, with a pair that is not hex *)
C7_Witness ==
    /\ hist = <<"build_fake_header", "verify_fake_header">> /\ ~fed
    /\ verdict = "true"
    /\ decrypter.header_len = Some(2)
    /\ decrypter.signature = Some(<<"+","f","5","g">>)

(* the value of a two-character pair read as two hex digits, 0 otherwise *)
HexPairValue(pair) ==
    IF is_ascii_hexdigit(pair[1]) /\ is_ascii_hexdigit(pair[2])
      THEN 16 * to_digit(pair[1]) + to_digit(pair[2])
    ELSE 0

(* the value u8::from_str_radix gives a two-character pair, 0 on an error: *)
(* a "+" followed by one hex digit is that digit                           *)
ParsedPairValue(pair) ==
    IF is_ascii_hexdigit(pair[1]) /\ is_ascii_hexdigit(pair[2])
      THEN 16 * to_digit(pair[1]) + to_digit(pair[2])
    ELSE IF pair[1] = "+" /\ is_ascii_hexdigit(pair[2])
      THEN to_digit(pair[2])
    ELSE 0

Pair(i) == SubSeq(header_structure(decrypter), 2 * i - 1, 2 * i)

(* C8 as stated: build_fake_header returns exactly header_len bytes, byte  *)
(* i the value of the i-th two-character hex pair of signature+version+    *)
(* remain and 0 when the pair is not valid hex; for Decrypter::new these   *)
(* are 52 50 47 4D 56 00 00 00 00 03 01 00 00 00 00 00.                    *)
C8_Original ==
    (Returned("build_fake_header") /\ WellFormed(decrypter)) =>
        /\ result = Ok([i \in 1..HeaderLen |-> HexPairValue(Pair(i))])
        /\ (decrypter \in NewDecrypters => result.val = DefaultFakeHeader)

(* C8, amended: byte i is what the radix-16 parse of the i-th pair gives,  *)
(* which is the value of the pair when both characters are hex digits, the *)
(* value of the second character when the pair is "+" and a hex digit, and *)
(* 0 for every other pair.                                                 *)
C8_FakeHeaderBytes ==
    (Returned("build_fake_header") /\ WellFormed(decrypter)) =>
        /\ result = Ok([i \in 1..HeaderLen |-> ParsedPairValue(Pair(i))])
        /\ (decrypter \in NewDecrypters => result.val = DefaultFakeHeader)

(* a header shorter than the structure string, with a signed pair in it *)
C8_Witness ==
    /\ Returned("build_fake_header")
    /\ decrypter.header_len = Some(3)
    /\ decrypter.signature = Some(<<"+","f","5","g">>)
    /\ result = Ok(<<15, 0, 0>>)

(* the input carries the magic of the family of tag ft *)
CarriesMagic(buf, ft) ==
    \/ ft \in OggFamily /\ Len(buf) >= 4 /\ SubSeq(buf, 1, 4) = <<79, 103, 103, 83>>
    \/ ft \in PngFamily /\ Len(buf) >= 8
         /\ SubSeq(buf, 1, 8) = <<137, 80, 78, 71, 13, 10, 26, 10>>
    \/ ft \in M4aFamily /\ Len(buf) >= 8 /\ SubSeq(buf, 5, 8) = <<102, 116, 121, 112>>

(* C9: restore_header returns its input unchanged whenever the input       *)
(* carries the magic of the tag's family: OggS in the first 4 bytes, the   *)
(* PNG signature in the first 8, "ftyp" in bytes 4..8.                     *)
C9_MagicUnchanged ==
    (Returned("restore_header") /\ CarriesMagic(data, file_type)) =>
        result = Ok(data)

(* an M4A input, its magic at bytes 4..8, under an encrypted M4A tag *)
C9_Witness ==
    /\ Returned("restore_header")
    /\ file_type = "RPGMVM"
    /\ Len(data) > 8 /\ SubSeq(data, 5, 8) = <<102, 116, 121, 112>>
    /\ result = Ok(data)

(* the full true header of the family of tag ft: 16, 28 and 16 bytes *)
TrueHeader(ft) ==
    IF ft \in PngFamily
      THEN <<137, 80, 78, 71, 13, 10, 26, 10, 0, 0, 0, 13, 73, 72, 68, 82>>
    ELSE IF ft \in OggFamily
      THEN <<79, 103, 103, 83>> \o [i \in 1..24 |-> 0]
    ELSE <<0, 0, 0, 32, 102, 116, 121, 112, 77, 52, 65, 32, 0, 0, 0, 0>>

(* C10: for a Decrypter made by Decrypter::new (no per-format overrides)   *)
(* and non-empty data lacking the magic, restore_header prepends the full  *)
(* true header of the tag's family: 16 bytes for PNG tags, 28 bytes (OggS  *)
(* and zero bytes) for OGG tags, 16 bytes for M4A tags, so the output is   *)
(* 16, 28 or 16 bytes longer than the content.                             *)
C10_FullTrueHeader ==
    (Returned("restore_header") /\ decrypter \in NewDecrypters
       /\ data # <<>> /\ ~CarriesMagic(data, file_type)) =>
        LET content == IF Len(data) >= HeaderLen
                            /\ SubSeq(data, 1, HeaderLen) = DefaultFakeHeader
                         THEN SubSeq(data, HeaderLen + 1, Len(data))
                       ELSE data
        IN  /\ result.tag = "Ok"
            /\ result.val = TrueHeader(file_type) \o content
            /\ Len(result.val) - Len(content) =
                  (IF file_type \in OggFamily THEN 28 ELSE 16)

(* the bytes of buf that restore_header keeps: buf without its first      *)
(* header_len bytes when they are the fake header, all of buf otherwise    *)
ContentOf(d, buf) ==
    LET fake == build_fake_header(d)
        n == get_header_len(d)
    IN  IF fake.tag = "Ok" /\ Len(buf) >= n /\ SubSeq(buf, 1, n) = fake.val
          THEN SubSeq(buf, n + 1, Len(buf))
        ELSE buf

(* C11: when restore_header prepends a true header, the bytes following it *)
(* are data[header_len..] if the first header_len bytes of data are the    *)
(* fake header and the whole of data otherwise: no other byte is removed   *)
(* or altered.                                                             *)
C11_ContentAfterHeader ==
    (Returned("restore_header") /\ result.tag = "Ok"
       /\ ~CarriesMagic(data, file_type)) =>
        LET content == ContentOf(decrypter, data)
            header == get_header_bytes(header_bytes(file_type),
                                       correct_header_len(decrypter, file_type))
        IN  result.val = header \o content

(* a fake header was stripped and a non-empty true header put in its place *)
C11_Witness ==
    /\ Returned("restore_header") /\ result.tag = "Ok"
    /\ ~CarriesMagic(data, file_type)
    /\ HeaderLen > 0
    /\ ContentOf(decrypter, data) # data
    /\ ContentOf(decrypter, data) # <<>>
    /\ Len(result.val) > Len(ContentOf(decrypter, data))

----------------------------------------------------------------------------
(* FileExtension (types.rs): the nine tags, named as the enum variants     *)

AsciiUpper ==
    <<"A","B","C","D","E","F","G","H","I","J","K","L","M",
      "N","O","P","Q","R","S","T","U","V","W","X","Y","Z">>

AsciiLower ==
    <<"a","b","c","d","e","f","g","h","i","j","k","l","m",
      "n","o","p","q","r","s","t","u","v","w","x","y","z">>

(* char::to_lowercase on the ASCII characters the inputs are made of *)
char_to_lowercase(c) ==
    IF InSeq(AsciiUpper, c) THEN AsciiLower[Index(AsciiUpper, c)] ELSE c

(* str::to_lowercase *)
to_lowercase(s) == [i \in 1..Len(s) |-> char_to_lowercase(s[i])]

(* FileExtension::from_str without the lower-casing *)
FileExtension_from_str_exact(e) ==
    IF e = <<"p","n","g">> THEN Some("PNG")
    ELSE IF e = <<"o","g","g">> THEN Some("OGG")
    ELSE IF e = <<"m","4","a">> THEN Some("M4A")
    ELSE IF e = <<"r","p","g","m","v","p">> THEN Some("RPGMVP")
    ELSE IF e = <<"r","p","g","m","v","o">> THEN Some("RPGMVO")
    ELSE IF e = <<"r","p","g","m","v","m">> THEN Some("RPGMVM")
    ELSE IF e = <<"p","n","g","_">> THEN Some("PNG_")
    ELSE IF e = <<"o","g","g","_">> THEN Some("OGG_")
    ELSE IF e = <<"m","4","a","_">> THEN Some("M4A_")
    ELSE None

(* FileExtension::from_str *)
FileExtension_from_str(e) ==
    LET l == to_lowercase(e)
    IN  IF l = <<"p","n","g">> THEN Some("PNG")
        ELSE IF l = <<"o","g","g">> THEN Some("OGG")
        ELSE IF l = <<"m","4","a">> THEN Some("M4A")
        ELSE IF l = <<"r","p","g","m","v","p">> THEN Some("RPGMVP")
        ELSE IF l = <<"r","p","g","m","v","o">> THEN Some("RPGMVO")
        ELSE IF l = <<"r","p","g","m","v","m">> THEN Some("RPGMVM")
        ELSE IF l = <<"p","n","g","_">> THEN Some("PNG_")
        ELSE IF l = <<"o","g","g","_">> THEN Some("OGG_")
        ELSE IF l = <<"m","4","a","_">> THEN Some("M4A_")
        ELSE None

(* FileExtension::to_str *)
FileExtension_to_str(t) ==
    CASE t = "PNG"    -> <<"p","n","g">>
      [] t = "OGG"    -> <<"o","g","g">>
      [] t = "M4A"    -> <<"m","4","a">>
      [] t = "RPGMVP" -> <<"r","p","g","m","v","p">>
      [] t = "RPGMVO" -> <<"r","p","g","m","v","o">>
      [] t = "RPGMVM" -> <<"r","p","g","m","v","m">>
      [] t = "PNG_"   -> <<"p","n","g","_">>
      [] t = "OGG_"   -> <<"o","g","g","_">>
      [] t = "M4A_"   -> <<"m","4","a","_">>

(* FileExtension::is_encrypted *)
FileExtension_is_encrypted(t) ==
    t \in {"RPGMVP", "RPGMVO", "RPGMVM", "PNG_", "OGG_", "M4A_"}

(* FileExtension::get_mime_type *)
get_mime_type(t) ==
    CASE t \in {"PNG", "RPGMVP", "PNG_"} -> "image/png"
      [] t \in {"OGG", "RPGMVO", "OGG_"} -> "audio/ogg"
      [] t \in {"M4A", "RPGMVM", "M4A_"} -> "audio/m4a"

(* FileExtension::get_file_type *)
get_file_type(t) ==
    CASE t \in {"PNG", "RPGMVP", "PNG_"} -> "Image"
      [] t \in {"OGG", "RPGMVO", "OGG_", "M4A", "RPGMVM", "M4A_"} -> "Audio"

(* enum RPGMakerVersion *)
RPGMakerVersion == {"MV", "MZ"}

(* FileExtension::convert that gives MZ files the MV names *)
convert_mz_as_mv(t, to_normal, version) ==
    IF to_normal
      THEN CASE t \in {"RPGMVP", "PNG_"} -> "PNG"
             [] t \in {"RPGMVO", "OGG_"} -> "OGG"
             [] t \in {"RPGMVM", "M4A_"} -> "M4A"
             [] OTHER -> t
    ELSE CASE t = "PNG" -> "RPGMVP"
           [] t = "OGG" -> "RPGMVO"
           [] t = "M4A" -> "RPGMVM"
           [] OTHER -> t

(* FileExtension::convert that renames encrypted tags to the generation's scheme *)
convert_renames_encrypted(t, to_normal, version) ==
    IF to_normal
      THEN CASE t \in {"RPGMVP", "PNG_"} -> "PNG"
             [] t \in {"RPGMVO", "OGG_"} -> "OGG"
             [] t \in {"RPGMVM", "M4A_"} -> "M4A"
             [] OTHER -> t
    ELSE CASE t \in {"PNG", "RPGMVP", "PNG_"} ->
                  IF version = "MZ" THEN "PNG_" ELSE "RPGMVP"
           [] t \in {"OGG", "RPGMVO", "OGG_"} ->
                  IF version = "MZ" THEN "OGG_" ELSE "RPGMVO"
           [] t \in {"M4A", "RPGMVM", "M4A_"} ->
                  IF version = "MZ" THEN "M4A_" ELSE "RPGMVM"

(* FileExtension::convert that turns every audio tag into an OGG one *)
convert_audio_as_ogg(t, to_normal, version) ==
    IF to_normal
      THEN CASE t \in {"RPGMVP", "PNG_"} -> "PNG"
             [] t \in {"RPGMVO", "OGG_", "RPGMVM", "M4A_"} -> "OGG"
             [] OTHER -> t
    ELSE CASE t \in {"RPGMVP", "PNG_", "RPGMVO", "OGG_", "RPGMVM", "M4A_"} -> t
           [] t = "PNG" /\ version = "MZ" -> "PNG_"
           [] t = "PNG" /\ version = "MV" -> "RPGMVP"
           [] t \in {"OGG", "M4A"} /\ version = "MZ" -> "OGG_"
           [] t \in {"OGG", "M4A"} /\ version = "MV" -> "RPGMVO"
           [] OTHER -> t

(* FileExtension::convert *)
convert(t, to_normal, version) ==
    IF to_normal
      THEN CASE t \in {"RPGMVP", "PNG_"} -> "PNG"
             [] t \in {"RPGMVO", "OGG_"} -> "OGG"
             [] t \in {"RPGMVM", "M4A_"} -> "M4A"
             [] OTHER -> t
    ELSE CASE t \in {"RPGMVP", "PNG_"} -> t
           [] t \in {"RPGMVO", "OGG_"} -> t
           [] t \in {"RPGMVM", "M4A_"} -> t
           [] t = "PNG" /\ version = "MZ" -> "PNG_"
           [] t = "PNG" /\ version = "MV" -> "RPGMVP"
           [] t = "OGG" /\ version = "MZ" -> "OGG_"
           [] t = "OGG" /\ version = "MV" -> "RPGMVO"
           [] t = "M4A" /\ version = "MZ" -> "M4A_"
           [] t = "M4A" /\ version = "MV" -> "RPGMVM"
           [] OTHER -> t

----------------------------------------------------------------------------
(* A caller of FileExtension: it classifies the string ext_str, converts   *)
(* the tag it got, and prints it back; tags holds what each call returned  *)
(* with the properties read from the tag, calls the calls made.            *)

MaxCalls == 3

(* the lower-case names of the nine tags *)
ExtNames ==
    { <<"p","n","g">>,
      <<"o","g","g">>,
      <<"m","4","a">>,
      <<"r","p","g","m","v","p">>,
      <<"r","p","g","m","v","o">>,
      <<"r","p","g","m","v","m">>,
      <<"p","n","g","_">>,
      <<"o","g","g","_">>,
      <<"m","4","a","_">> }

(* every mix of upper and lower case of the name n *)
CaseMixes(n) ==
    { [i \in 1..Len(n) |->
         IF i \in S /\ InSeq(AsciiLower, n[i])
           THEN AsciiUpper[Index(AsciiLower, n[i])] ELSE n[i]]
      : S \in SUBSET (1..Len(n)) }

(* strings that are no case mix of a name *)
OtherStrings ==
    { <<>>,
      <<"j","p","g">>,
      <<"p","n">>,
      <<"p","n","g","g">>,
      <<"_","p","n","g">>,
      <<"p","n","g",".">>,
      <<"r","p","g","m","v">>,
      <<"r","p","g","m","v","p","p">>,
      <<"m","p","4">>,
      <<"o","g","_","g">>,
      <<"w","a","v">>,
      <<"p","-","g">>,
      <<"m","4","a","_","_">>,
      <<"r","p","g","m","v","k">>,
      <<"n","g">>,
      <<"0","g","g">> }

ExtStrings == UNION {CaseMixes(n) : n \in ExtNames} \cup OtherStrings

(* what a caller reads from an Option<FileExtension> *)
Observed(o) ==
    IF o = None
      THEN [tag |-> None, is_encrypted |-> FALSE, mime_type |-> "", file_type |-> ""]
    ELSE [tag |-> o,
          is_encrypted |-> FileExtension_is_encrypted(Unwrap(o)),
          mime_type |-> get_mime_type(Unwrap(o)),
          file_type |-> get_file_type(Unwrap(o))]

CallRec(op, to_normal, version) ==
    [op |-> op, to_normal |-> to_normal, version |-> version]

Last(s) == s[Len(s)]

InitExt ==
    /\ decrypter = Decrypter_new(None) /\ file_type = "PNG"
    /\ orig = <<>> /\ data = <<>> /\ hist = <<>>
    /\ result = NoResult /\ verdict = "none" /\ fed = FALSE
    /\ KeyIdle /\ GuiIdle /\ FileIdle
    /\ ext_str \in ExtStrings
    /\ tags = <<>>
    /\ calls = <<>>

FromStr ==
    /\ Len(calls) < MaxCalls
    /\ IF calls = <<>> THEN TRUE ELSE Last(calls).op = "to_str"
    /\ tags' = Append(tags, Observed(FileExtension_from_str(ext_str)))
    /\ calls' = Append(calls, CallRec("from_str", FALSE, "MV"))
    /\ UNCHANGED <<ext_str, coreVars, keyVars, fileVars, guiVars>>

ToStr ==
    /\ Len(calls) < MaxCalls
    /\ tags # <<>> /\ Last(tags).tag # None
    /\ ext_str' = FileExtension_to_str(Unwrap(Last(tags).tag))
    /\ tags' = Append(tags, Last(tags))
    /\ calls' = Append(calls, CallRec("to_str", FALSE, "MV"))
    /\ UNCHANGED <<coreVars, keyVars, fileVars, guiVars>>

Convert ==
    /\ Len(calls) < MaxCalls
    /\ tags # <<>> /\ Last(tags).tag # None
    /\ \E to_normal \in BOOLEAN, version \in RPGMakerVersion :
         /\ tags' = Append(tags,
                Observed(Some(convert(Unwrap(Last(tags).tag), to_normal, version))))
         /\ calls' = Append(calls, CallRec("convert", to_normal, version))
    /\ UNCHANGED <<ext_str, coreVars, keyVars, fileVars, guiVars>>

NextExt ==
    \/ FromStr
    \/ ToStr
    \/ Convert

SpecExt == InitExt /\ [][NextExt]_vars

----------------------------------------------------------------------------
(* the tag whose canonical name is a case mix of s, if there is one *)
TagNamed(s) ==
    LET ts == {t \in FileExtensions : s \in CaseMixes(FileExtension_to_str(t))}
    IN  IF ts = {} THEN None ELSE Some(CHOOSE t \in ts : TRUE)

(* C16: FileExtension::from_str returns, for any mix of upper and lower    *)
(* case of one of the 9 names, the tag of the lower-case name, and none    *)
(* for every other string; from_str(to_str(t)) = t for every tag t.        *)
C16_FromStr ==
    /\ (Len(calls) = 1 /\ calls[1].op = "from_str") =>
          tags[1].tag = TagNamed(ext_str)
    /\ \A i \in 1..(Len(calls) - 1) :
          (calls[i].op = "to_str" /\ calls[i + 1].op = "from_str") =>
              tags[i + 1].tag = tags[i].tag

(* a mixed-case spelling was classified *)
C16_Witness ==
    /\ Len(calls) = 1 /\ calls[1].op = "from_str"
    /\ ext_str = <<"R","p","g","M","v","P">>
    /\ tags[1].tag = Some("RPGMVP")

----------------------------------------------------------------------------
(* the reference table of convert: the plain, the MV and the MZ tag of each *)
(* tag's family                                                             *)
PlainOf ==
    [t \in FileExtensions |->
       IF t \in PngFamily THEN "PNG" ELSE IF t \in OggFamily THEN "OGG" ELSE "M4A"]

MvOf ==
    [t \in FileExtensions |->
       IF t \in PngFamily THEN "RPGMVP"
       ELSE IF t \in OggFamily THEN "RPGMVO" ELSE "RPGMVM"]

MzOf ==
    [t \in FileExtensions |->
       IF t \in PngFamily THEN "PNG_" ELSE IF t \in OggFamily THEN "OGG_" ELSE "M4A_"]

PlainTags == {"PNG", "OGG", "M4A"}

MvTags == {"RPGMVP", "RPGMVO", "RPGMVM"}

MzTags == {"PNG_", "OGG_", "M4A_"}

RefConvert(t, to_plain, g) ==
    IF to_plain THEN PlainOf[t]
    ELSE IF t \in MvTags \cup MzTags THEN t
    ELSE IF g = "MV" THEN MvOf[t] ELSE MzOf[t]

(* the i-th call was convert, applied to the tag the call before returned *)
ConvertAt(i) == i > 1 /\ i <= Len(calls) /\ calls[i].op = "convert"

(* C17: convert(tag, to_plain, generation) agrees with the reference table *)
(* for all 9 tags, both flags and both generations: with to_plain every    *)
(* encrypted tag maps to its plain counterpart whatever the generation and *)
(* plain tags are unchanged; without to_plain every encrypted tag is       *)
(* unchanged and a plain tag maps to rpgmvp/rpgmvo/rpgmvm for MV and to    *)
(* png_/ogg_/m4a_ for MZ.                                                  *)
C17_ConvertTable ==
    \A i \in 1..Len(calls) :
        ConvertAt(i) =>
            tags[i].tag = Some(RefConvert(Unwrap(tags[i - 1].tag),
                                          calls[i].to_normal, calls[i].version))

(* a plain tag was given its MZ name *)
C17_Witness ==
    /\ Len(calls) = 2 /\ ConvertAt(2)
    /\ ~calls[2].to_normal /\ calls[2].version = "MZ"
    /\ tags[1].tag = Some("OGG")
    /\ tags[2].tag = Some("OGG_")

(* the tags of one true format *)
SameFormat(t, u) ==
    \E fam \in {PngFamily, OggFamily, M4aFamily} : t \in fam /\ u \in fam

(* C18: for each generation g and each encrypted tag e,                    *)
(* convert(convert(e, true, g), false, g) is an encrypted tag of the same  *)
(* true format, and is e itself when e uses g's naming scheme; every       *)
(* encrypted tag is a fixed point of convert(_, false, g) for both         *)
(* generations.                                                            *)
C18_ConvertRoundTrip ==
    \A i \in 1..Len(calls) :
        (ConvertAt(i) /\ Unwrap(tags[i - 1].tag) \in MvTags \cup MzTags) =>
            LET e == Unwrap(tags[i - 1].tag)
                g == calls[i].version
            IN  /\ ~calls[i].to_normal => tags[i].tag = Some(e)
                /\ (calls[i].to_normal /\ ConvertAt(i + 1)
                      /\ ~calls[i + 1].to_normal /\ calls[i + 1].version = g) =>
                       LET back == Unwrap(tags[i + 1].tag)
                       IN  /\ back \in MvTags \cup MzTags
                           /\ SameFormat(back, e)
                           /\ (e \in (IF g = "MV" THEN MvTags ELSE MzTags)) =>
                                  back = e

(* an MZ tag went to plain and back under MV, and came back with its MV name *)
C18_Witness ==
    /\ Len(calls) = 3 /\ ConvertAt(2) /\ ConvertAt(3)
    /\ calls[2].to_normal /\ calls[2].version = "MV"
    /\ ~calls[3].to_normal /\ calls[3].version = "MV"
    /\ tags[1].tag = Some("PNG_")
    /\ tags[3].tag = Some("RPGMVP")

(* C19: every tag has one true format and one MIME type, those of its      *)
(* family (PNG: Image, image/png; OGG: Audio, audio/ogg; M4A: Audio,       *)
(* audio/m4a); is_encrypted is true exactly for the six suffixed tags; and *)
(* convert never changes the true format or the MIME type, whatever the    *)
(* flag and the generation.                                                *)
C19_TagProperties ==
    \A i \in 1..Len(tags) :
        tags[i].tag # None =>
            LET t == Unwrap(tags[i].tag)
            IN  /\ t \in PngFamily =>
                     tags[i].file_type = "Image" /\ tags[i].mime_type = "image/png"
                /\ t \in OggFamily =>
                     tags[i].file_type = "Audio" /\ tags[i].mime_type = "audio/ogg"
                /\ t \in M4aFamily =>
                     tags[i].file_type = "Audio" /\ tags[i].mime_type = "audio/m4a"
                /\ tags[i].is_encrypted <=> t \in MvTags \cup MzTags
                /\ ConvertAt(i) =>
                     /\ tags[i].file_type = tags[i - 1].file_type
                     /\ tags[i].mime_type = tags[i - 1].mime_type

(* an encrypted M4A tag was converted to the plain one, both audio/m4a *)
C19_Witness ==
    /\ Len(calls) = 2 /\ ConvertAt(2)
    /\ tags[1].tag = Some("M4A_") /\ tags[1].is_encrypted
    /\ tags[2].tag = Some("M4A") /\ ~tags[2].is_encrypted
    /\ tags[2].mime_type = "audio/m4a" /\ tags[2].file_type = "Audio"

----------------------------------------------------------------------------
(* Key::from_png_header, Key::from_json, Key::from_rpg_core (types.rs),    *)
(* Decrypter::detect_key_from_file, Decrypter::from_file (decrypter.rs)    *)

(* the lower-case hexadecimal digits *)
HexDigits == DecDigits \o LowerHex

(* format!("{:x}", byte): no padding *)
format_x(byte) ==
    IF byte < 16 THEN <<HexDigits[byte + 1]>>
    ELSE <<HexDigits[(byte \div 16) + 1], HexDigits[(byte % 16) + 1]>>

(* format!("{:02x}", byte) *)
format_02x(byte) == <<HexDigits[(byte \div 16) + 1], HexDigits[(byte % 16) + 1]>>

(* const PNG_HEADER of Key::get_png_header_bytes *)
PNG_HEADER ==
    <<"8","9"," ","5","0"," ","4","E"," ","4","7"," ","0","D"," ","0","A"," ",
      "1","A"," ","0","A"," ","0","0"," ","0","0"," ","0","0"," ","0","D"," ",
      "4","9"," ","4","8"," ","4","4"," ","5","2">>

(* Iterator::take *)
Take(seq, n) == SubSeq(seq, 1, Min(n, Len(seq)))

(* Key::get_png_header_bytes *)
get_png_header_bytes(header_len) == FilterParsed(Take(Split(PNG_HEADER), header_len))

RECURSIVE Concat(_)
Concat(ss) == IF ss = <<>> THEN <<>> ELSE Head(ss) \o Concat(Tail(ss))

(* from_png_header that looks at the fake header first, and returns none   *)
(* for a file that does not begin with it                                  *)
Key_from_png_header_checked(header_len, buf) ==
    IF Len(buf) < header_len * 2
         \/ ~verify_fake_header(Decrypter_new(None), SubSeq(buf, 1, header_len)).val
      THEN [panic |-> FALSE, val |-> None]
    ELSE [panic |-> FALSE,
          val |-> Key_new(Concat([i \in 1..header_len |->
                     format_02x(Xor(get_png_header_bytes(header_len)[i],
                                    buf[header_len + i]))]))]

(* Key::from_png_header: [panic, val], val the Option<Key> returned; the   *)
(* index png_header[i] is out of range when header_len exceeds the table   *)
Key_from_png_header(header_len, buf) ==
    IF Len(buf) < header_len * 2 THEN [panic |-> FALSE, val |-> None]
    ELSE LET file_header == SubSeq(buf, header_len + 1, header_len * 2)
             png_header == get_png_header_bytes(header_len)
         IN  IF Len(png_header) < header_len THEN [panic |-> TRUE, val |-> None]
             ELSE [panic |-> FALSE,
                   val |-> Key_new(Concat([i \in 1..header_len |->
                              format_02x(Xor(png_header[i], file_header[i]))]))]

(* the characters of the bytes 32..126; "grave" stands for the grave       *)
(* accent, byte 96                                                         *)
Ascii ==
    <<
      " ","!","\"","#","$","%","&","'","(",")","*","+",",","-",".","/",
      "0","1","2","3","4","5","6","7","8","9",":",";","<","=",">","?",
      "@","A","B","C","D","E","F","G","H","I","J","K","L","M","N","O",
      "P","Q","R","S","T","U","V","W","X","Y","Z","[","\\","]","^","_",
      "grave","a","b","c","d","e","f","g","h","i","j","k","l","m","n","o",
      "p","q","r","s","t","u","v","w","x","y","z","{","|","}","~" >>

(* the character of a byte below 128; "ctl" stands for the control         *)
(* characters other than tab, line feed and carriage return                *)
Chr(b) ==
    IF b >= 32 /\ b <= 126 THEN Ascii[b - 31]
    ELSE IF b = 9 THEN "\t"
    ELSE IF b = 10 THEN "\n"
    ELSE IF b = 13 THEN "\r"
    ELSE "ctl"

(* str::as_bytes of one character: printable, tab, line feed or carriage   *)
(* return                                                                  *)
Ord(c) ==
    IF c = "\t" THEN 9
    ELSE IF c = "\n" THEN 10
    ELSE IF c = "\r" THEN 13
    ELSE Index(Ascii, c) + 31

(* str::as_bytes *)
Bytes(text) == [i \in 1..Len(text) |-> Ord(text[i])]

(* a continuation byte at position i *)
Cont(buf, i, lo, hi) == i <= Len(buf) /\ buf[i] >= lo /\ buf[i] <= hi

(* the length of the UTF-8 sequence that starts at position i, 0 if none *)
Utf8SeqLen(buf, i) ==
    LET b == buf[i]
    IN  IF b < 128 THEN 1
        ELSE IF b >= 194 /\ b <= 223
          THEN (IF Cont(buf, i + 1, 128, 191) THEN 2 ELSE 0)
        ELSE IF b >= 224 /\ b <= 239
          THEN (IF /\ Cont(buf, i + 1, IF b = 224 THEN 160 ELSE 128,
                                       IF b = 237 THEN 159 ELSE 191)
                   /\ Cont(buf, i + 2, 128, 191)
                  THEN 3 ELSE 0)
        ELSE IF b >= 240 /\ b <= 244
          THEN (IF /\ Cont(buf, i + 1, IF b = 240 THEN 144 ELSE 128,
                                       IF b = 244 THEN 143 ELSE 191)
                   /\ Cont(buf, i + 2, 128, 191)
                   /\ Cont(buf, i + 3, 128, 191)
                  THEN 4 ELSE 0)
        ELSE 0

(* String::from_utf8: [ok, text]; a character outside ASCII is decoded to  *)
(* the one character "uni"                                                 *)
RECURSIVE Utf8From(_, _, _)
Utf8From(buf, i, text) ==
    IF i > Len(buf) THEN [ok |-> TRUE, text |-> text]
    ELSE LET n == Utf8SeqLen(buf, i)
         IN  IF n = 0 THEN [ok |-> FALSE, text |-> <<>>]
             ELSE Utf8From(buf, i + n,
                           Append(text, IF n = 1 THEN Chr(buf[i]) ELSE "uni"))

String_from_utf8(buf) == Utf8From(buf, 1, <<>>)

(* serde_json::from_str::<Value> on the JSON texts of the inputs: a scalar *)
(* or an object of scalars, the scalars being strings without escapes,     *)
(* integers, true, false and null                                          *)
JsonWs == {" ", "\n", "\r", "\t"}

RECURSIVE SkipWs(_, _)
SkipWs(s, i) ==
    IF i <= Len(s) /\ s[i] \in JsonWs THEN SkipWs(s, i + 1) ELSE i

JsonFail == [ok |-> FALSE, next |-> 0, kind |-> "", val |-> <<>>]

(* the closing quote of the string opened before position j, 0 if none *)
RECURSIVE CloseQuote(_, _)
CloseQuote(s, j) ==
    IF j > Len(s) THEN 0
    ELSE IF s[j] = "\"" THEN j
    ELSE IF s[j] \in {"\n", "\r", "\t", "ctl", "\\"} THEN 0
    ELSE CloseQuote(s, j + 1)

ParseStr(s, i) ==
    LET j == CloseQuote(s, i + 1)
    IN  IF j = 0 THEN JsonFail
        ELSE [ok |-> TRUE, next |-> j + 1, kind |-> "string",
              val |-> SubSeq(s, i + 1, j - 1)]

RECURSIVE DigitsEnd(_, _)
DigitsEnd(s, i) ==
    IF i <= Len(s) /\ InSeq(DecDigits, s[i]) THEN DigitsEnd(s, i + 1) ELSE i

ParseNum(s, i) ==
    LET d == IF s[i] = "-" THEN i + 1 ELSE i
        e == IF d <= Len(s) /\ s[d] = "0" THEN d + 1 ELSE DigitsEnd(s, d)
    IN  IF e = d THEN JsonFail
        ELSE [ok |-> TRUE, next |-> e, kind |-> "number", val |-> SubSeq(s, i, e - 1)]

ParseLit(s, i) ==
    LET lits == {<<"t","r","u","e">>, <<"f","a","l","s","e">>, <<"n","u","l","l">>}
        hit == {l \in lits : i + Len(l) - 1 <= Len(s) /\ SubSeq(s, i, i + Len(l) - 1) = l}
    IN  IF hit = {} THEN JsonFail
        ELSE LET l == CHOOSE l \in hit : TRUE
             IN  [ok |-> TRUE, next |-> i + Len(l), kind |-> "literal", val |-> l]

ParseScalar(s, i) ==
    IF i > Len(s) THEN JsonFail
    ELSE IF s[i] = "\"" THEN ParseStr(s, i)
    ELSE IF s[i] = "-" \/ InSeq(DecDigits, s[i]) THEN ParseNum(s, i)
    ELSE ParseLit(s, i)

(* the members of an object from position i on, the last of equal names    *)
(* replacing the earlier one                                               *)
RECURSIVE Members(_, _, _)
Members(s, i, map) ==
    IF i > Len(s) \/ s[i] # "\"" THEN JsonFail
    ELSE LET k == ParseStr(s, i)
             c == SkipWs(s, k.next)
             v == ParseScalar(s, SkipWs(s, c + 1))
             e == SkipWs(s, v.next)
         IN  IF ~k.ok \/ c > Len(s) \/ s[c] # ":" \/ ~v.ok \/ e > Len(s) THEN JsonFail
             ELSE LET m == [n \in (DOMAIN map) \cup {k.val} |->
                              IF n = k.val THEN [kind |-> v.kind, val |-> v.val]
                              ELSE map[n]]
                  IN  IF s[e] = "," THEN Members(s, SkipWs(s, e + 1), m)
                      ELSE IF s[e] = "}"
                        THEN [ok |-> TRUE, next |-> e + 1, kind |-> "object", val |-> m]
                      ELSE JsonFail

ParseValue(s, i) ==
    IF i > Len(s) THEN JsonFail
    ELSE IF s[i] = "{"
      THEN LET j == SkipWs(s, i + 1)
           IN  IF j <= Len(s) /\ s[j] = "}"
                 THEN [ok |-> TRUE, next |-> j + 1, kind |-> "object", val |-> <<>>]
               ELSE Members(s, j, <<>>)
    ELSE ParseScalar(s, i)

serde_json_from_str(s) ==
    LET v == ParseValue(s, SkipWs(s, 1))
    IN  IF v.ok /\ SkipWs(s, v.next) > Len(s) THEN v ELSE JsonFail

encryptionKey == <<"e","n","c","r","y","p","t","i","o","n","K","e","y">>

(* Key::from_json *)
Key_from_json(json) ==
    LET v == serde_json_from_str(json)
    IN  IF v.ok /\ v.kind = "object" /\ encryptionKey \in DOMAIN v.val
             /\ v.val[encryptionKey].kind = "string"
          THEN Key_new(v.val[encryptionKey].val)
        ELSE None

(* str::split(c) *)
RECURSIVE SplitOnFrom(_, _, _, _)
SplitOnFrom(s, c, i, cur) ==
    IF i > Len(s) THEN <<cur>>
    ELSE IF s[i] = c THEN <<cur>> \o SplitOnFrom(s, c, i + 1, <<>>)
    ELSE SplitOnFrom(s, c, i + 1, Append(cur, s[i]))

SplitOn(s, c) == SplitOnFrom(s, c, 1, <<>>)

(* str::lines: split at line feeds, a trailing carriage return and a last  *)
(* empty line dropped                                                      *)
Lines(s) ==
    LET raw == SplitOn(s, "\n")
        kept == IF raw[Len(raw)] = <<>> THEN SubSeq(raw, 1, Len(raw) - 1) ELSE raw
    IN  [i \in 1..Len(kept) |->
           IF kept[i] # <<>> /\ kept[i][Len(kept[i])] = "\r"
             THEN SubSeq(kept[i], 1, Len(kept[i]) - 1) ELSE kept[i]]

(* str::contains *)
Contains(s, pat) ==
    \E i \in 1..(Len(s) - Len(pat) + 1) : SubSeq(s, i, i + Len(pat) - 1) = pat

this_encryptionKey == <<"t","h","i","s",".","_","e","n","c","r","y","p","t","i","o","n","K","e","y">>

(* Key::from_rpg_core *)
Key_from_rpg_core(content) ==
    LET ls == Lines(content)
        hits == {i \in 1..Len(ls) : Contains(ls[i], this_encryptionKey)}
    IN  IF hits = {} THEN None
        ELSE LET line == ls[CHOOSE i \in hits : \A j \in hits : i <= j]
                 parts == SplitOn(line, "\"")
             IN  IF Len(parts) < 2 THEN None ELSE Key_new(parts[2])

(* Decrypter::detect_encryption_code with the JSON text tried first *)
detect_encryption_code_json_first(buf, header_len) ==
    LET png == Key_from_png_header(header_len, buf)
        utf == String_from_utf8(buf)
    IN  IF utf.ok /\ Key_from_json(utf.text) # None
          THEN [panic |-> FALSE, val |-> Key_from_json(utf.text)]
        ELSE IF png.panic \/ png.val # None THEN png
        ELSE IF utf.ok THEN [panic |-> FALSE, val |-> Key_from_rpg_core(utf.text)]
        ELSE [panic |-> FALSE, val |-> None]

(* Decrypter::detect_encryption_code *)
detect_encryption_code(buf, header_len) ==
    LET png == Key_from_png_header(header_len, buf)
        utf == String_from_utf8(buf)
    IN  IF png.panic \/ png.val # None THEN png
        ELSE IF utf.ok
          THEN (IF Key_from_json(utf.text) # None
                  THEN [panic |-> FALSE, val |-> Key_from_json(utf.text)]
                ELSE [panic |-> FALSE, val |-> Key_from_rpg_core(utf.text)])
        ELSE [panic |-> FALSE, val |-> None]

(* Decrypter::detect_key_from_file *)
detect_key_from_file(file_contents) ==
    detect_encryption_code(file_contents, get_header_len(Decrypter_new(None)))

(* Decrypter::from_file: [panic, val], val the Option<Decrypter> returned *)
Decrypter_from_file(file_contents) ==
    LET k == detect_key_from_file(file_contents)
    IN  IF k.panic THEN [panic |-> TRUE, val |-> None]
        ELSE IF k.val # None THEN [panic |-> FALSE, val |-> Some(Decrypter_new(k.val))]
        ELSE [panic |-> FALSE, val |-> None]

----------------------------------------------------------------------------
(* A caller of Key and of key detection: it makes a Key of a string, or    *)
(* holds a file, maybe the encryption of a PNG under the key of decrypter, *)
(* asks for its key, and decrypts the file with the key it got.            *)

(* strings given to Key::new beside KeyStrings *)
KeyTexts ==
    KeyStrings \cup
    { <<"a">>,
      <<"x","y","z","1">>,
      <<"1","2","g","4">>,
      <<"+","f">>,
      <<"D","E","A","D","B","E","E","F">>,
      <<"d","e","a","d"," ","b","e","e","f">>,
      <<"0">>,
      <<"0","a","1">> }

(* a PNG: the 16 bytes of the true header and n more *)
PngPlain(n) == get_header_bytes(PNG_HEADER_BYTES, DEFAULT_HEADER_LEN) \o Payload(n)

PngPlains == {PngPlain(0), PngPlain(5), PngPlain(MaxPayload)}

(* text files shorter than 32 bytes *)
ShortTexts ==
    { <<"{","\"","e","n","c","r","y","p","t","i","o","n","K","e","y",
          "\"",":","\"","d","e","a","d","b","e","e","f","\"","}">>,
      <<"{","\"","e","n","c","r","y","p","t","i","o","n","K","e","y",
          "\"",":","\"","x","y","z","\"","}">>,
      <<"{","\"","e","n","c","r","y","p","t","i","o","n","K","e","y",
          "\"",":","1","2","}">>,
      <<"{"," ","\"","e","n","c","r","y","p","t","i","o","n","K","e",
          "y","\""," ",":"," ","\"","a","b","\""," ","}","\n">>,
      <<"{","\"","e","n","c","r","y","p","t","i","o","n","K","e","y",
          "\"",":","\"","a","b","c","\"","}">>,
      <<"{","\"","a","\"",":","1",",","\"","e","n","c","r","y","p","t",
          "i","o","n","K","e","y","\"",":","\"","0","f","\"","}">>,
      <<"{","\"","e","n","c","r","y","p","t","i","o","n","K","e","y",
          "\"",":","\"","0","f","\"">>,
      <<"{","\"","e","n","c","r","y","p","t","i","o","n","K","e","y",
          "\"",":","\"","0","f","\"","}"," ","x">>,
      <<"{","\"","e","n","c","r","y","p","t","i","o","n","K","e","y",
          "\"",":","\"","1","\"",",","\"","a","\"",":","n","u","l","l",
          ",","}">>,
      <<"t","h","i","s",".","_","e","n","c","r","y","p","t","i","o","n",
          "K","e","y","=","\"","a","b","1","2","\"",";">>,
      <<"x","\n","t","h","i","s",".","_","e","n","c","r","y","p","t",
          "i","o","n","K","e","y"," ","="," ","\"","z","z","\"">>,
      <<"t","h","i","s",".","_","e","n","c","r","y","p","t","i","o","n",
          "K","e","y"," ","="," ","5",";">>,
      <<"/","/","\r","\n","t","h","i","s",".","_","e","n","c","r","y",
          "p","t","i","o","n","K","e","y","=","\"","c","0","d","e","\"">>,
      <<"t","h","i","s",".","_","e","n","c","r","y","p","t","i","o","n",
          "K","e","y","=","\"","7","f">>,
      <<"\"","e","n","c","r","y","p","t","i","o","n","K","e","y","\"">>,
      <<"{","}">>,
      <<"v","a","r"," ","k"," ","="," ","\"","d","e","a","d","b","e",
          "e","f","\"",";">> }

(* text files of 32 bytes and more *)
LongTexts ==
    { <<"{","\"","e","n","c","r","y","p","t","i","o","n","K","e","y",
          "\"",":","\"","d","e","a","d","b","e","e","f","\"",",","\"","a",
          "\"",":","1","}">>,
      <<"t","h","i","s",".","_","e","n","c","r","y","p","t","i","o","n",
          "K","e","y"," ","="," ","\"","d","e","a","d","b","e","e","f",
          "\"",";","x">> }

(* files that are no text, or text outside ASCII *)
BinaryFiles ==
    { <<>>,
      <<255, 254, 0>>,
      Bytes(<<"{","\"","k","\"",":","\"">>) \o <<195, 169>> \o Bytes(<<"\"","}">>),
      Bytes(<<"{","\"","e","n","c","r","y","p","t","i","o","n","K","e","y",
          "\"",":","\"">>) \o <<195, 169>> \o Bytes(<<"\"","}">>),
      Bytes(<<"t","h","i","s",".","_","e","n","c","r","y","p","t","i","o","n",
          "K","e","y","=","\"","a","b","\"">>) \o <<255>>,
      Bytes(<<"t","h","i","s",".","_","e","n","c","r","y","p","t","i","o","n",
          "K","e","y","=","\"","a","b","\"">>) \o <<226, 130, 172>>,
      Payload(31),
      Payload(32),
      Payload(2 * MaxPayload),
      <<255>> \o Payload(31) }

KeyFiles ==
    {Bytes(x) : x \in ShortTexts \cup LongTexts} \cup BinaryFiles

InitKey ==
    /\ decrypter \in NewDecrypters
    /\ file_type = "PNG"
    /\ orig \in PngPlains \cup KeyFiles
    /\ data = orig
    /\ hist = <<>>
    /\ result = NoResult /\ verdict = "none" /\ fed = FALSE
    /\ KeyIdle /\ GuiIdle /\ ExtIdle /\ FileIdle

KeyNew ==
    /\ hist = <<>>
    /\ \E s \in KeyTexts :
         /\ key_str' = s
         /\ key_out' = Key_new(s)
    /\ hist' = <<"Key::new">>
    /\ UNCHANGED <<decrypter, file_type, orig, data, result, verdict, fed, found>>
    /\ UNCHANGED <<extVars, fileVars, guiVars>>

(* the file becomes its encryption under the key of decrypter *)
KeyEncrypt ==
    /\ hist = <<>>
    /\ result' = encrypt(decrypter, data)
    /\ data' = IF result'.tag = "Ok" THEN result'.val ELSE data
    /\ hist' = <<"encrypt">>
    /\ UNCHANGED <<decrypter, file_type, orig, verdict, fed>>
    /\ UNCHANGED <<keyVars, extVars, fileVars, guiVars>>

(* the file is still the one to ask the key of *)
Asking(op) ==
    IF hist \in {<<>>, <<"encrypt">>} THEN TRUE
    ELSE /\ Len(hist) <= 3
         /\ hist[1] # "Key::new"
         /\ Last(hist) # "decrypt"
         /\ \A i \in 1..Len(hist) : hist[i] # op

FromPngHeader ==
    /\ Asking("from_png_header")
    /\ \E k \in {Key_from_png_header(get_header_len(Decrypter_new(None)), data)} :
           /\ key_out' = k.val
           /\ verdict' = IF k.panic THEN "panic" ELSE "none"
    /\ hist' = Append(hist, "from_png_header")
    /\ UNCHANGED <<decrypter, file_type, orig, data, result, fed, key_str, found>>
    /\ UNCHANGED <<extVars, fileVars, guiVars>>

DetectKeyFromFile ==
    /\ Asking("detect_key_from_file")
    /\ \E k \in {detect_key_from_file(data)} :
           /\ key_out' = k.val
           /\ verdict' = IF k.panic THEN "panic" ELSE "none"
    /\ hist' = Append(hist, "detect_key_from_file")
    /\ UNCHANGED <<decrypter, file_type, orig, data, result, fed, key_str, found>>
    /\ UNCHANGED <<extVars, fileVars, guiVars>>

FromFile ==
    /\ Asking("from_file")
    /\ \E d \in {Decrypter_from_file(data)} :
           /\ found' = d.val
           /\ verdict' = IF d.panic THEN "panic" ELSE "none"
    /\ hist' = Append(hist, "from_file")
    /\ UNCHANGED <<decrypter, file_type, orig, data, result, fed, key_str, key_out>>
    /\ UNCHANGED <<extVars, fileVars, guiVars>>

(* the file is decrypted with the key last returned *)
DecryptWithKey ==
    /\ hist # <<>>
    /\ Last(hist) \in {"from_png_header", "detect_key_from_file"}
    /\ key_out # None
    /\ result' = decrypt(Decrypter_new(key_out), data)
    /\ hist' = Append(hist, "decrypt")
    /\ UNCHANGED <<decrypter, file_type, orig, data, verdict, fed>>
    /\ UNCHANGED <<keyVars, extVars, fileVars, guiVars>>

NextKey ==
    \/ KeyNew
    \/ KeyEncrypt
    \/ FromPngHeader
    \/ DetectKeyFromFile
    \/ FromFile
    \/ DecryptWithKey

SpecKey == InitKey /\ [][NextKey]_vars

----------------------------------------------------------------------------
(* the last call made on the file or the string *)
LastCall(op) == hist # <<>> /\ Last(hist) = op

HexChars ==
    {"0","1","2","3","4","5","6","7","8","9",
     "a","b","c","d","e","f","A","B","C","D","E","F"}

(* C13: Key::new returns none for every string that has a non-hex          *)
(* character and for every string of odd length; every Key it returns has  *)
(* a raw string of even length and len(bytes) = len(raw)/2.                *)
C13_KeyNewRejects ==
    LastCall("Key::new") =>
        /\ ((\E i \in 1..Len(key_str) : key_str[i] \notin HexChars)
              \/ Len(key_str) % 2 = 1) => key_out = None
        /\ key_out # None =>
              /\ Len(Unwrap(key_out).raw) % 2 = 0
              /\ 2 * Len(Unwrap(key_out).bytes) = Len(Unwrap(key_out).raw)

(* the plaintext is a PNG: at least 16 bytes, the first 16 the PNG header *)
IsPng(buf) ==
    /\ Len(buf) >= 16
    /\ SubSeq(buf, 1, 16) = <<137, 80, 78, 71, 13, 10, 26, 10, 0, 0, 0, 13, 73, 72, 68, 82>>

(* C14: for every plaintext p of at least 16 bytes that begins with the    *)
(* 16-byte PNG header and every key k, with e = encrypt_k(p):              *)
(* Key::from_png_header(16, e) returns a key k' such that decrypt with k'  *)
(* of e is p, and the bytes of k' are the bytes of k when k has 16 bytes.  *)
C14_RecoveredKeyDecrypts ==
    (IsPng(orig) /\ Len(hist) >= 2
       /\ hist[1] = "encrypt" /\ hist[2] = "from_png_header") =>
        /\ Len(hist) = 2 =>
              /\ key_out # None
              /\ KeyLen = 16 =>
                    Unwrap(key_out).bytes = Unwrap(decrypter.key).bytes
        /\ (Len(hist) = 3 /\ hist[3] = "decrypt") => result = Ok(orig)

(* a PNG encrypted under an 18-byte key came back under the recovered key, *)
(* which is the first 16 bytes of the key                                  *)
C14_Witness ==
    /\ IsPng(orig) /\ Len(orig) > 16
    /\ hist = <<"encrypt", "from_png_header", "decrypt">>
    /\ KeyLen = 18
    /\ Unwrap(key_out).bytes = SubSeq(Unwrap(decrypter.key).bytes, 1, 16)
    /\ result = Ok(orig)

(* the first success of the three heuristics in their order, the two text  *)
(* heuristics applying to valid UTF-8 only                                 *)
FirstSuccess(buf) ==
    LET png == Key_from_png_header(16, buf).val
        utf == String_from_utf8(buf)
    IN  IF png # None THEN png
        ELSE IF ~utf.ok THEN None
        ELSE IF Key_from_json(utf.text) # None THEN Key_from_json(utf.text)
        ELSE Key_from_rpg_core(utf.text)

(* every heuristic that applies to buf returns none *)
AllNone(buf) ==
    /\ Key_from_png_header(16, buf).val = None
    /\ String_from_utf8(buf).ok =>
          /\ Key_from_json(String_from_utf8(buf).text) = None
          /\ Key_from_rpg_core(String_from_utf8(buf).text) = None

(* C15: detect_key_from_file(data) is the first success in the order       *)
(* from_png_header(16, data), from_json(text), from_rpg_core(text), the    *)
(* two text heuristics consulted only when data is valid UTF-8; it is none *)
(* exactly when every applicable heuristic returns none; and               *)
(* Decrypter::from_file is Some exactly when detect_key_from_file is Some. *)
C15_DetectOrder ==
    /\ LastCall("detect_key_from_file") =>
          /\ key_out = FirstSuccess(data)
          /\ key_out = None <=> AllNone(data)
    /\ (\E i \in 1..Len(hist) : hist[i] = "from_file") =>
          /\ found # None <=> FirstSuccess(data) # None
          /\ found # None => Unwrap(found) = Decrypter_new(FirstSuccess(data))

(* a text too short for the PNG heuristic and no JSON: the key of the      *)
(* rpg_core line was returned, and from_file made a Decrypter of it        *)
C15_Witness ==
    /\ hist = <<"detect_key_from_file", "from_file">>
    /\ Len(data) < 32
    /\ Key_from_json(String_from_utf8(data).text) = None
    /\ key_out = Key_new(<<"c","0","d","e">>)
    /\ found = Some(Decrypter_new(key_out))

----------------------------------------------------------------------------
(* RPGFile (rpg_file.rs). A path is the sequence of its components, each a *)
(* string; the paths are relative and have no root.                        *)

(* Path::file_name: the last component unless it is "." or ".." *)
Path_file_name(p) ==
    IF p = <<>> \/ Last(p) \in {<<".">>, <<".", ".">>} THEN None ELSE Some(Last(p))

(* the last dot of a file name, 0 if it has none *)
LastDot(file) ==
    IF \E i \in 1..Len(file) : file[i] = "."
      THEN CHOOSE i \in 1..Len(file) :
              file[i] = "." /\ \A j \in (i + 1)..Len(file) : file[j] # "."
    ELSE 0

(* std::path rsplit_file_at_dot: [before, after], both Option *)
rsplit_file_at_dot(file) ==
    LET d == LastDot(file)
    IN  IF file = <<".", ".">> THEN [before |-> Some(file), after |-> None]
        ELSE IF d = 0 THEN [before |-> None, after |-> Some(file)]
        ELSE IF d = 1 THEN [before |-> Some(file), after |-> None]
        ELSE [before |-> Some(SubSeq(file, 1, d - 1)),
              after |-> Some(SubSeq(file, d + 1, Len(file)))]

(* Path::file_stem *)
Path_file_stem(p) ==
    IF Path_file_name(p) = None THEN None
    ELSE LET s == rsplit_file_at_dot(Unwrap(Path_file_name(p)))
         IN  IF s.before # None THEN s.before ELSE s.after

(* Path::extension *)
Path_extension(p) ==
    IF Path_file_name(p) = None THEN None
    ELSE LET s == rsplit_file_at_dot(Unwrap(Path_file_name(p)))
         IN  IF s.before # None THEN s.after ELSE None

(* Path::parent *)
Path_parent(p) == IF p = <<>> THEN None ELSE Some(SubSeq(p, 1, Len(p) - 1))

(* Path::join of one component: a "." after other components is not a      *)
(* component of the path                                                   *)
Path_join(p, c) == IF c = <<".">> /\ p # <<>> THEN p ELSE Append(p, c)

(* Path::with_extension: set_extension does nothing without a file name *)
Path_with_extension(p, extension) ==
    IF Path_file_stem(p) = None THEN p
    ELSE Append(SubSeq(p, 1, Len(p) - 1),
                Unwrap(Path_file_stem(p)) \o <<".">> \o extension)

(* RPGFile::new *)
RPGFile_new(path) == [path |-> path, content |-> None, version |-> "MV"]

(* RPGFile::set_version *)
set_version(f, version) == [f EXCEPT !.version = version]

(* RPGFile::set_content *)
set_content(f, content) == [f EXCEPT !.content = Some(content)]

(* RPGFile::extension *)
RPGFile_extension(f) ==
    IF Path_extension(f.path) = None THEN None
    ELSE FileExtension_from_str(Unwrap(Path_extension(f.path)))

(* RPGFile::convert_extension *)
convert_extension(f, to_normal) ==
    IF RPGFile_extension(f) = None THEN f
    ELSE LET new_ext == convert(Unwrap(RPGFile_extension(f)), to_normal, f.version)
         IN  IF Path_parent(f.path) = None \/ Path_file_stem(f.path) = None THEN f
             ELSE [f EXCEPT !.path =
                     Path_with_extension(
                        Path_join(Unwrap(Path_parent(f.path)),
                                  Unwrap(Path_file_stem(f.path))),
                        FileExtension_to_str(new_ext))]

(* RPGFile::is_encrypted *)
RPGFile_is_encrypted(f) ==
    IF RPGFile_extension(f) = None THEN FALSE
    ELSE FileExtension_is_encrypted(Unwrap(RPGFile_extension(f)))

----------------------------------------------------------------------------
(* A caller of RPGFile: it makes an RPGFile of a path, and calls           *)
(* set_version, set_content and convert_extension on it.                   *)

(* file names, with and without a recognized extension *)
FileNames ==
    { <<"t","e","s","t",".","p","n","g">>,
      <<"t","e","s","t",".","o","g","g">>,
      <<"t","e","s","t",".","m","4","a">>,
      <<"t","e","s","t",".","r","p","g","m","v","p">>,
      <<"t","e","s","t",".","r","p","g","m","v","o">>,
      <<"t","e","s","t",".","r","p","g","m","v","m">>,
      <<"t","e","s","t",".","p","n","g","_">>,
      <<"t","e","s","t",".","o","g","g","_">>,
      <<"t","e","s","t",".","m","4","a","_">>,
      <<"P","i","c",".","P","N","G">>,
      <<"a",".","b",".","p","n","g","_">>,
      <<"a",".","b",".","o","g","g">>,
      <<"a",".",".","m","4","a">>,
      <<".","h","i","d","d","e","n",".","p","n","g">>,
      <<".",".","p","n","g">>,
      <<".",".",".","o","g","g">>,
      <<".","p","n","g">>,
      <<"n","o","e","x","t">>,
      <<"r","e","a","d","m","e",".","t","x","t">>,
      <<"x",".","R","p","g","M","v","M">>,
      <<"p","n","g">> }

Folders == {<<>>, <<<<"i","m","g">>>>}

Paths == {Append(d, n) : d \in Folders, n \in FileNames}

InitFile ==
    /\ decrypter = Decrypter_new(None) /\ file_type = "PNG"
    /\ orig = <<>> /\ data = <<>> /\ hist = <<>>
    /\ result = NoResult /\ verdict = "none" /\ fed = FALSE
    /\ KeyIdle /\ GuiIdle
    /\ ext_str = <<>> /\ tags = <<>> /\ calls = <<>>
    /\ settings = None
    /\ disk \in {[path |-> p, content |-> c] : p \in Paths, c \in {Hello}}
    /\ rpg_file = RPGFile_new(disk.path)

SetVersion ==
    /\ Len(calls) < MaxCalls
    /\ \E version \in RPGMakerVersion :
         /\ rpg_file' = set_version(rpg_file, version)
         /\ calls' = Append(calls, CallRec("set_version", FALSE, version))
    /\ UNCHANGED <<coreVars, keyVars, ext_str, tags, disk, settings, guiVars>>

SetContent ==
    /\ Len(calls) < MaxCalls
    /\ rpg_file.content = None
    /\ rpg_file' = set_content(rpg_file, disk.content)
    /\ calls' = Append(calls, CallRec("set_content", FALSE, rpg_file.version))
    /\ UNCHANGED <<coreVars, keyVars, ext_str, tags, disk, settings, guiVars>>

ConvertExtension ==
    /\ Len(calls) < MaxCalls
    /\ \E to_normal \in BOOLEAN :
         /\ rpg_file' = convert_extension(rpg_file, to_normal)
         /\ calls' = Append(calls, CallRec("convert_extension", to_normal,
                                           rpg_file.version))
    /\ UNCHANGED <<coreVars, keyVars, ext_str, tags, disk, settings, guiVars>>

NextFile ==
    \/ SetVersion
    \/ SetContent
    \/ ConvertExtension

SpecFile == InitFile /\ [][NextFile]_vars

(* FileExtension::convert folded over the first n calls, from tag t under  *)
(* generation g                                                            *)
RECURSIVE FoldCalls(_, _, _)
FoldCalls(t, g, n) ==
    IF n = 0 THEN [tag |-> t, version |-> g]
    ELSE LET before == FoldCalls(t, g, n - 1)
             c == calls[n]
         IN  IF c.op = "set_version" THEN [before EXCEPT !.version = c.version]
             ELSE IF c.op = "convert_extension"
               THEN [before EXCEPT
                       !.tag = convert(before.tag, c.to_normal, before.version)]
             ELSE before

(* C20: after any sequence of set_version and convert_extension calls on   *)
(* an RPGFile whose path has a recognized extension e0, extension() is the *)
(* fold of FileExtension::convert over the calls, each with the generation *)
(* in force at the call, a new RPGFile starting with MV; on a path without *)
(* a recognized extension convert_extension leaves the path unchanged.     *)
C20_ExtensionIsFold ==
    LET e0 == RPGFile_extension(RPGFile_new(disk.path))
    IN  IF e0 # None
          THEN RPGFile_extension(rpg_file) =
                   Some(FoldCalls(Unwrap(e0), "MV", Len(calls)).tag)
        ELSE rpg_file.path = disk.path

----------------------------------------------------------------------------
(* The asset handlers of CryptManager (crypt_manager/mod.rs): encrypt_image *)
(* and decrypt_image read the file disk, build an RPGFile of it, and write  *)
(* its content to the path with the RPGFile's extension; decrypt_path is    *)
(* the root folder, and the next handler is called on the file written.     *)

(* contents with the magic of PNG, OGG and M4A, and without *)
AssetContents ==
    { PngPlain(5),
      PngMagic,
      OggMagic,
      OggMagic \o Payload(MaxPayload),
      <<0, 0, 0, 32>> \o FtypMagic \o Payload(13),
      Payload(5),
      <<>> }

AssetNames ==
    { <<"t","e","s","t",".","p","n","g">>,
      <<"t","e","s","t",".","o","g","g">>,
      <<"t","e","s","t",".","m","4","a">>,
      <<"a",".","b",".","o","g","g">>,
      <<".",".",".","p","n","g">>,
      <<"t","e","s","t",".","r","p","g","m","v","p">>,
      <<"n","o","e","x","t">> }

(* CryptSettings: rpgmaker_version and decrypter, the latter made by       *)
(* CryptManager::update_encryption_key                                     *)
Settings ==
    [rpgmaker_version : RPGMakerVersion,
     decrypter : {None} \cup {Some(d) : d \in NewDecrypters}]

InitAsset ==
    /\ decrypter = Decrypter_new(None) /\ file_type = "PNG"
    /\ data = <<>> /\ hist = <<>> /\ verdict = "none" /\ fed = FALSE
    /\ KeyIdle /\ GuiIdle
    /\ ext_str = <<>>
    /\ settings \in Settings
    /\ disk \in {[path |-> Append(d, n), content |-> c] :
                   d \in Folders, n \in AssetNames, c \in AssetContents}
    /\ orig = disk.content
    /\ rpg_file = None
    /\ tags = <<Observed(RPGFile_extension(RPGFile_new(disk.path)))>>
    /\ calls = <<>>
    /\ result = NoResult

(* the path the handlers write to: full_path.set_extension(ext.to_str()) *)
output_path(path, f) ==
    IF RPGFile_extension(f) = None THEN path
    ELSE Path_with_extension(path, FileExtension_to_str(Unwrap(RPGFile_extension(f))))

(* the handler returned Err(msg), nothing written *)
HandlerErr(msg) ==
    /\ result' = Err(msg)
    /\ UNCHANGED <<rpg_file, disk, tags>>

(* the handler wrote the content of f and returned Ok(()) *)
HandlerOk(f) ==
    /\ result' = Ok(<<>>)
    /\ rpg_file' = f
    /\ disk' = [path |-> output_path(disk.path, f), content |-> Unwrap(f.content)]
    /\ tags' = Append(tags, Observed(RPGFile_extension(f)))

(* CryptManager::encrypt_image *)
EncryptImage ==
    /\ Len(calls) < MaxCalls
    /\ calls' = Append(calls, CallRec("encrypt_image", FALSE, settings.rpgmaker_version))
    /\ IF settings.decrypter = None THEN HandlerErr("No encryption key set")
       ELSE LET f == set_content(set_version(RPGFile_new(disk.path),
                                             settings.rpgmaker_version),
                                 disk.content)
                encrypted_data == encrypt(Unwrap(settings.decrypter), Unwrap(f.content))
            IN  IF encrypted_data.tag = "Panic"
                  THEN result' = Panic /\ UNCHANGED <<rpg_file, disk, tags>>
                ELSE IF encrypted_data.tag = "Err" THEN HandlerErr(encrypted_data.err)
                ELSE HandlerOk(convert_extension(set_content(f, encrypted_data.val), FALSE))
    /\ UNCHANGED <<decrypter, file_type, orig, data, hist, verdict, fed>>
    /\ UNCHANGED <<keyVars, ext_str, settings, guiVars>>

(* CryptManager::decrypt_image *)
DecryptImage ==
    /\ Len(calls) < MaxCalls
    /\ calls' = Append(calls, CallRec("decrypt_image", TRUE, "MV"))
    /\ IF settings.decrypter = None THEN HandlerErr("No encryption key set")
       ELSE LET f == set_content(RPGFile_new(disk.path), disk.content)
                d == Unwrap(settings.decrypter)
                decrypted_content == decrypt(d, Unwrap(f.content))
                restored_content ==
                    restore_header(d, decrypted_content.val, Unwrap(RPGFile_extension(f)))
            IN  IF ~RPGFile_is_encrypted(f) THEN HandlerErr("File is not encrypted")
                ELSE IF decrypted_content.tag = "Panic"
                  THEN result' = Panic /\ UNCHANGED <<rpg_file, disk, tags>>
                ELSE IF decrypted_content.tag = "Err"
                  THEN HandlerErr("Decryption failed")
                ELSE IF restored_content.tag = "Panic"
                  THEN result' = Panic /\ UNCHANGED <<rpg_file, disk, tags>>
                ELSE IF restored_content.tag = "Err"
                  THEN HandlerErr("Header restoration failed")
                ELSE HandlerOk(convert_extension(set_content(f, restored_content.val), TRUE))
    /\ UNCHANGED <<decrypter, file_type, orig, data, hist, verdict, fed>>
    /\ UNCHANGED <<keyVars, ext_str, settings, guiVars>>

NextAsset ==
    \/ EncryptImage
    \/ DecryptImage

SpecAsset == InitAsset /\ [][NextAsset]_vars

(* the asset: the RPGFile the last handler built, the file itself before *)
Asset == IF rpg_file = None THEN set_content(RPGFile_new(disk.path), disk.content)
         ELSE rpg_file

BeginsWithFakeHeader(buf) ==
    Len(buf) >= 16 /\ SubSeq(buf, 1, 16) = DefaultFakeHeader

(* a plain asset: extension png, ogg or m4a, content beginning with the    *)
(* magic of that format; a key is set                                      *)
PlainAtStart ==
    /\ tags[1].tag # None
    /\ Unwrap(tags[1].tag) \in PlainTags
    /\ CarriesMagic(orig, Unwrap(tags[1].tag))
    /\ settings.decrypter # None

EncCall == CallRec("encrypt_image", FALSE, settings.rpgmaker_version)

DecCall == CallRec("decrypt_image", TRUE, "MV")

(* C12: asset cycle. From a plain asset, for any key and either            *)
(* generation, encrypt + convert_extension(false) yields an asset with     *)
(* is_encrypted() true whose content begins with the fake header; decrypt  *)
(* + restore_header + convert_extension(true) then yields the original     *)
(* content byte for byte and the original plain extension; in every state  *)
(* of the cycle is_encrypted() holds exactly when the content begins with  *)
(* the fake header.                                                        *)
C12_AssetCycle ==
    (PlainAtStart /\ calls \in {<<>>, <<EncCall>>, <<EncCall, DecCall>>}) =>
        /\ calls = <<EncCall>> =>
              /\ result.tag = "Ok"
              /\ RPGFile_is_encrypted(rpg_file)
              /\ BeginsWithFakeHeader(Unwrap(rpg_file.content))
        /\ calls = <<EncCall, DecCall>> =>
              /\ result.tag = "Ok"
              /\ Unwrap(rpg_file.content) = orig
              /\ RPGFile_extension(rpg_file) = tags[1].tag
        /\ RPGFile_is_encrypted(Asset) <=> BeginsWithFakeHeader(Unwrap(Asset.content))

(* C21: convert_extension changes nothing but the final extension of the   *)
(* path: across every convert_extension call the parent directory and the *)
(* file stem of the path (everything before the last dot of the file      *)
(* name, stems with dots in them included) are the same before and after, *)
(* and the content and the generation of the RPGFile are unchanged.       *)
C21_OnlyExtensionChanges ==
    [][(Len(calls') = Len(calls) + 1 /\ Last(calls').op = "convert_extension")
          => /\ Path_parent(rpg_file'.path) = Path_parent(rpg_file.path)
             /\ Path_file_stem(rpg_file'.path) = Path_file_stem(rpg_file.path)
             /\ rpg_file'.content = rpg_file.content
             /\ rpg_file'.version = rpg_file.version]_vars

(* C24: for every input of at least 32 bytes, whatever its content,        *)
(* detect_key_from_file returns Some key of exactly 16 bytes, byte i being *)
(* data[16+i] XOR the i-th byte of the PNG header; so the results of       *)
(* from_json and from_rpg_core are returned only for inputs shorter than   *)
(* 32 bytes.                                                               *)
C24_LongInputPngKey ==
    LastCall("detect_key_from_file") =>
        /\ Len(data) >= 32 =>
              /\ verdict = "none"
              /\ key_out # None
              /\ Len(Unwrap(key_out).bytes) = 16
              /\ \A i \in 1..16 :
                   Unwrap(key_out).bytes[i] =
                      Xor(data[16 + i],
                          <<137, 80, 78, 71, 13, 10, 26, 10,
                            0, 0, 0, 13, 73, 72, 68, 82>>[i])
        /\ \A text \in {String_from_utf8(data)} :
              (text.ok /\ key_out # None
                 /\ key_out \in {Key_from_json(text.text), Key_from_rpg_core(text.text)})
                 => Len(data) < 32

(* a JSON text of 32 bytes and more that names a key: the key returned is  *)
(* the one of the PNG heuristic, not the one the text names                *)
C24_Witness ==
    /\ LastCall("detect_key_from_file")
    /\ Len(data) >= 32
    /\ data \in {Bytes(x) : x \in LongTexts}
    /\ Key_from_json(String_from_utf8(data).text) # None
    /\ key_out # None
    /\ key_out # Key_from_json(String_from_utf8(data).text)

----------------------------------------------------------------------------
(* the true header restore_header prepends for the tag *)
PrependedHeader ==
    get_header_bytes(header_bytes(file_type), correct_header_len(decrypter, file_type))

(* C25 as stated: for a Decrypter made by Decrypter::new, restore_header   *)
(* returns Ok for every non-empty input and every tag, InvalidHeader is    *)
(* never produced, and every input shorter than header_len gets the true   *)
(* header prepended to it as is.                                           *)
C25_RestoreAlwaysOk ==
    (Returned("restore_header") /\ decrypter \in NewDecrypters /\ data # <<>>) =>
        /\ result.tag = "Ok"
        /\ Len(data) < HeaderLen => result.val = PrependedHeader \o data

(* C25 amended: for a Decrypter made by Decrypter::new, restore_header     *)
(* returns Ok for every non-empty input and every tag, InvalidHeader is    *)
(* never produced; an input shorter than header_len is treated as having   *)
(* no fake header: it is returned unchanged when it carries the magic of   *)
(* the tag's family, and gets the true header prepended to it as is        *)
(* otherwise.                                                              *)
C25_RestoreAlwaysOkAmended ==
    (Returned("restore_header") /\ decrypter \in NewDecrypters /\ data # <<>>) =>
        /\ result.tag = "Ok"
        /\ Len(data) < HeaderLen =>
              result.val = IF CarriesMagic(data, file_type) THEN data
                           ELSE PrependedHeader \o data

(* a 15-byte input without magic came back with the true header before it *)
C25_Witness ==
    /\ Returned("restore_header") /\ decrypter \in NewDecrypters
    /\ Len(data) = 15
    /\ ~CarriesMagic(data, file_type)
    /\ PrependedHeader # <<>>
    /\ result = Ok(PrependedHeader \o data)

----------------------------------------------------------------------------
(* ThumbnailCache (file_browser/thumbnail_cache.rs). The cache is the set  *)
(* of its entries, one per path, each with the Instant of its insertion;   *)
(* the texture of an entry is left out. An Instant is the value of the     *)
(* clock, and elapsed() is the clock minus the Instant. An operation that  *)
(* iterates the HashMap returns the set of its possible outcomes, one per  *)
(* iteration order.                                                        *)

(* ThumbnailCache::new: the fields of the struct but the channels *)
ThumbnailCache_new(max_size, ttl) ==
    [cache |-> {}, max_size |-> max_size, ttl |-> ttl,
     pending_loads |-> {}, failed_loads |-> {}, counter |-> 0]

(* HashMap::remove *)
cache_remove(cache, path) == {e \in cache : e.path # path}

(* HashMap::insert *)
cache_insert(cache, path, timestamp) ==
    cache_remove(cache, path) \cup {[path |-> path, timestamp |-> timestamp]}

(* the entries cache.iter().min_by_key(elapsed) can return at clock t: an  *)
(* entry of the least elapsed time, the first of them in iteration order   *)
min_by_key_elapsed(cache, t) ==
    {e \in cache : \A o \in cache : t - e.timestamp <= t - o.timestamp}

(* the while loop of insert: the caches it can leave *)
RECURSIVE insert_loop(_, _, _)
insert_loop(cache, max_size, t) ==
    IF Cardinality(cache) >= max_size /\ cache # {}
      THEN UNION {insert_loop(cache \ {e}, max_size, t) :
                    e \in min_by_key_elapsed(cache, t)}
    ELSE {cache}

(* ThumbnailCache::insert at clock t *)
insert(tc, path, t) ==
    {[tc EXCEPT !.cache = cache_insert(c, path, t)] :
       c \in insert_loop(tc.cache, tc.max_size, t)}

(* the while loop of cleanup_oversized *)
RECURSIVE cleanup_oversized_loop(_, _, _)
cleanup_oversized_loop(cache, max_size, t) ==
    IF Cardinality(cache) > max_size /\ cache # {}
      THEN UNION {cleanup_oversized_loop(cache \ {e}, max_size, t) :
                    e \in min_by_key_elapsed(cache, t)}
    ELSE {cache}

(* ThumbnailCache::cleanup_oversized *)
cleanup_oversized(tc, t) ==
    {[tc EXCEPT !.cache = c] : c \in cleanup_oversized_loop(tc.cache, tc.max_size, t)}

(* ThumbnailCache::cleanup_expired *)
cleanup_expired(tc, t) ==
    [tc EXCEPT !.cache = {e \in tc.cache : t - e.timestamp < tc.ttl}]

(* ThumbnailCache::get: [tc, val], val the Option returned; counter is     *)
(* kept modulo 100                                                         *)
get(tc, path, t) ==
    LET counted == [tc EXCEPT !.counter = (tc.counter + 1) % 100]
        cleaned == IF counted.counter = 0 THEN cleanup_expired(counted, t)
                   ELSE counted
        hit == {e \in cleaned.cache : e.path = path}
    IN  IF hit = {} THEN [tc |-> cleaned, val |-> None]
        ELSE IF \A e \in hit : t - e.timestamp < cleaned.ttl
          THEN [tc |-> cleaned, val |-> Some(path)]
        ELSE [tc |-> [cleaned EXCEPT !.cache = cache_remove(cleaned.cache, path)],
              val |-> None]

(* ThumbnailCache::is_pending *)
is_pending(tc, path) == path \in tc.pending_loads

(* ThumbnailCache::mark_pending *)
mark_pending(tc, path) == [tc EXCEPT !.pending_loads = tc.pending_loads \cup {path}]

(* ThumbnailCache::unmark_pending *)
unmark_pending(tc, path) == [tc EXCEPT !.pending_loads = tc.pending_loads \ {path}]

(* ThumbnailCache::remove *)
remove(tc, path) ==
    [tc EXCEPT !.cache = cache_remove(tc.cache, path),
               !.pending_loads = tc.pending_loads \ {path},
               !.failed_loads = tc.failed_loads \ {path}]

(* ThumbnailCache::set_max_size *)
set_max_size(tc, max_size, t) == cleanup_oversized([tc EXCEPT !.max_size = max_size], t)

(* ThumbnailCache::set_ttl *)
set_ttl(tc, ttl, t) == cleanup_expired([tc EXCEPT !.ttl = ttl], t)

(* ThumbnailCache::clear_cache *)
clear_cache(tc) == [tc EXCEPT !.cache = {}, !.failed_loads = {}]

(* ThumbnailResult *)
ThumbnailResult(path, texture_data) == [path |-> path, texture_data |-> texture_data]

(* the loop body of process_results for one result *)
process_result(tc, r, t) ==
    IF r.texture_data # None
      THEN {unmark_pending(x, r.path) : x \in insert(tc, r.path, t)}
    ELSE {unmark_pending([tc EXCEPT !.failed_loads = tc.failed_loads \cup {r.path}],
                         r.path)}

(* ThumbnailCache::process_results on the results drained from the channel *)
RECURSIVE process_results(_, _, _)
process_results(tc, results, t) ==
    IF results = <<>> THEN {tc}
    ELSE UNION {process_results(x, Tail(results), t) :
                  x \in process_result(tc, Head(results), t)}

(* image::load_from_memory succeeds: of the formats it knows the model has *)
(* PNG, told by its signature                                              *)
image_load_from_memory(image_data) ==
    Len(image_data) >= 8 /\ SubSeq(image_data, 1, 8) = PngMagic

(* a task run with the Decrypter of the GUI thread at the time it runs *)
task_decrypter_shared(task) == decrypter

(* the Decrypter of a task: the Arc of the clone request_thumbnail made *)
task_decrypter(task) == task.decrypter

(* ThumbnailCache::process_thumbnail_task on the files fs: [panic, val],   *)
(* val the ThumbnailResult                                                 *)
process_thumbnail_task(task, fs) ==
    IF task.path \notin DOMAIN fs
      THEN [panic |-> FALSE, val |-> ThumbnailResult(task.path, None)]
    ELSE LET f == set_content(RPGFile_new(task.path), fs[task.path])
             content == decrypt(task_decrypter(task), Unwrap(f.content))
             image_data == IF RPGFile_is_encrypted(f) THEN content.val
                           ELSE Unwrap(f.content)
         IN  IF RPGFile_is_encrypted(f) /\ content.tag = "Panic"
               THEN [panic |-> TRUE, val |-> ThumbnailResult(task.path, None)]
             ELSE IF RPGFile_is_encrypted(f) /\ content.tag = "Err"
               THEN [panic |-> FALSE, val |-> ThumbnailResult(task.path, None)]
             ELSE [panic |-> FALSE,
                   val |-> ThumbnailResult(task.path,
                              IF image_load_from_memory(image_data)
                                THEN Some("rgb") ELSE None)]

----------------------------------------------------------------------------
(* The file browser and the worker thread of its ThumbnailCache. The GUI   *)
(* thread holds the Decrypter of the current folder (decrypter), calls     *)
(* the cache, and calls the Decrypter on files itself; the worker thread   *)
(* takes a task from the task channel, processes it, and sends the result  *)
(* on the result channel. log is the last call of the GUI thread and the   *)
(* number of its calls.                                                    *)

MaxGuiCalls == 3

MaxClock == 2

MaxCacheSize == 2

(* the keys a folder is given *)
GuiKeys ==
    { Key_new(<<"d","e","a","d","b","e","e","f">>),
      Key_new(<<"0","1","2","3","4","5","6","7","8","9","a","b","c","d","e","f",
                "f","e","d","c","b","a","9","8","7","6","5","4","3","2","1","0">>) }

GuiDecrypters == {Decrypter_new(k) : k \in GuiKeys}

PathA == <<<<"a",".","p","n","g">>>>

PathB == <<<<"b",".","r","p","g","m","v","p">>>>

PathC == <<<<"c",".","p","n","g","_">>>>

PathD == <<<<"d",".","p","n","g">>>>

(* a PNG encrypted under the first key *)
EncryptedPng ==
    encrypt(Decrypter_new(Key_new(<<"d","e","a","d","b","e","e","f">>)), PngPlain(5)).val

(* the folders on disk: images, plain and encrypted, a file that is no     *)
(* image, and an encrypted file cut short of its fake header               *)
Disks ==
    { [p \in {PathA, PathB} |-> IF p = PathA THEN PngPlain(5) ELSE EncryptedPng],
      [p \in {PathB, PathC} |-> IF p = PathB THEN EncryptedPng ELSE Payload(4)],
      [p \in {PathA, PathD} |-> IF p = PathA THEN PngPlain(0) ELSE Hello] }

(* mpsc::channel twice: the queues, and whether the Receiver of the task   *)
(* channel, held by the worker thread, is alive                            *)
Channels_new == [tasks |-> <<>>, results |-> <<>>, task_rx |-> TRUE]

(* the worker thread in recv(), no task at hand *)
Worker_new == [pc |-> "recv", task |-> None]

(* a call of the GUI thread *)
GuiCall(op, path) == [calls |-> log.calls + 1, op |-> op, path |-> path]

InitBrowser ==
    /\ decrypter \in GuiDecrypters
    /\ file_type = "PNG"
    /\ orig = <<>> /\ data = <<>> /\ hist = <<>>
    /\ result = NoResult /\ verdict = "none" /\ fed = FALSE
    /\ KeyIdle /\ ExtIdle /\ FileIdle
    /\ crypt_manager = None
    /\ files \in Disks
    /\ channels = Channels_new
    /\ worker = Worker_new
    /\ now = 0
    /\ log = [calls |-> 0, op |-> "new", path |-> None]

(* FileBrowser::default: ThumbnailCache::new *)
InitThumb ==
    /\ InitBrowser
    /\ thumbnail_cache \in {ThumbnailCache_new(m, MaxClock + 1) : m \in 0..MaxCacheSize}

(* ThumbnailCache::request_thumbnail *)
RequestThumbnail ==
    /\ log.calls < MaxGuiCalls
    /\ \E path \in DOMAIN files :
         /\ log' = GuiCall("request_thumbnail", path)
         /\ IF is_pending(thumbnail_cache, path)
                 \/ path \in thumbnail_cache.failed_loads
              THEN UNCHANGED <<thumbnail_cache, channels>>
            ELSE IF channels.task_rx
              THEN /\ thumbnail_cache' = mark_pending(thumbnail_cache, path)
                   /\ channels' =
                        [channels EXCEPT !.tasks =
                           Append(channels.tasks,
                                  [path |-> path, decrypter |-> decrypter])]
            ELSE /\ thumbnail_cache' =
                       unmark_pending(mark_pending(thumbnail_cache, path), path)
                 /\ UNCHANGED channels
    /\ UNCHANGED <<worker, now, managerVars, coreVars, keyVars, extVars, fileVars>>

(* ThumbnailCache::process_results, called on every frame *)
ProcessResults ==
    /\ log' = [log EXCEPT !.op = "process_results", !.path = None]
    /\ thumbnail_cache' \in process_results(thumbnail_cache, channels.results, now)
    /\ channels' = [channels EXCEPT !.results = <<>>]
    /\ UNCHANGED <<worker, now, managerVars, coreVars, keyVars, extVars, fileVars>>

(* ThumbnailCache::remove *)
Remove ==
    /\ log.calls < MaxGuiCalls
    /\ \E path \in DOMAIN files :
         /\ log' = GuiCall("remove", path)
         /\ thumbnail_cache' = remove(thumbnail_cache, path)
    /\ UNCHANGED <<channels, worker, now, managerVars, coreVars, keyVars, extVars,
                   fileVars>>

(* ThumbnailCache::clear_cache *)
ClearCache ==
    /\ log.calls < MaxGuiCalls
    /\ log' = GuiCall("clear_cache", None)
    /\ thumbnail_cache' = clear_cache(thumbnail_cache)
    /\ UNCHANGED <<channels, worker, now, managerVars, coreVars, keyVars, extVars,
                   fileVars>>

(* the folder is given another key: CryptManager::update_encryption_key   *)
(* makes a new Decrypter of it                                             *)
UpdateEncryptionKey ==
    /\ log.calls < MaxGuiCalls
    /\ \E k \in GuiKeys :
         /\ Decrypter_new(k) # decrypter
         /\ decrypter' = Decrypter_new(k)
    /\ log' = GuiCall("update_encryption_key", None)
    /\ UNCHANGED <<file_type, orig, data, hist, result, verdict, fed>>
    /\ UNCHANGED <<thumbnail_cache, channels, worker, now, managerVars, keyVars,
                   extVars, fileVars>>

(* the GUI thread calls decrypt, encrypt or restore_header on a file *)
GuiDecrypterCall ==
    /\ log.calls < MaxGuiCalls
    /\ \E path \in DOMAIN files, op \in {"decrypt", "encrypt", "restore_header"} :
         /\ log' = GuiCall(op, path)
         /\ data' = files[path]
         /\ hist' = <<op>>
         /\ result' = IF op = "decrypt" THEN decrypt(decrypter, files[path])
                      ELSE IF op = "encrypt" THEN encrypt(decrypter, files[path])
                      ELSE restore_header(decrypter, files[path], file_type)
    /\ UNCHANGED <<decrypter, file_type, orig, verdict, fed>>
    /\ UNCHANGED <<thumbnail_cache, channels, worker, now, managerVars, keyVars,
                   extVars, fileVars>>

(* the worker thread: task_rx.recv() returns a task *)
WorkerRecv ==
    /\ worker.pc = "recv"
    /\ channels.tasks # <<>>
    /\ worker' = [pc |-> "task", task |-> Some(Head(channels.tasks))]
    /\ channels' = [channels EXCEPT !.tasks = Tail(channels.tasks)]
    /\ UNCHANGED <<thumbnail_cache, now, log, managerVars, coreVars, keyVars,
                   extVars, fileVars>>

(* the worker thread: process_thumbnail_task and result_tx.send; a panic   *)
(* ends the thread, and its Receiver is dropped with the tasks queued      *)
WorkerProcess ==
    /\ worker.pc = "task"
    /\ \E r \in {process_thumbnail_task(Unwrap(worker.task), files)} :
         IF r.panic
           THEN /\ worker' = [pc |-> "dead", task |-> None]
                /\ channels' = [channels EXCEPT !.tasks = <<>>, !.task_rx = FALSE]
         ELSE /\ worker' = Worker_new
              /\ channels' = [channels EXCEPT !.results = Append(channels.results, r.val)]
    /\ UNCHANGED <<thumbnail_cache, now, log, managerVars, coreVars, keyVars,
                   extVars, fileVars>>

NextThumb ==
    \/ RequestThumbnail
    \/ ProcessResults
    \/ Remove
    \/ ClearCache
    \/ UpdateEncryptionKey
    \/ GuiDecrypterCall
    \/ WorkerRecv
    \/ WorkerProcess

SpecThumb == InitThumb /\ [][NextThumb]_vars

(* the worker thread runs, and process_results keeps being called: the     *)
(* thread takes a queued task, process_thumbnail_task returns or panics    *)
(* (the thread does not stay in it, which is weak fairness of              *)
(* WorkerProcess, enabled exactly when worker.pc = "task"), and every      *)
(* frame calls process_results                                             *)
SpecThumbFair ==
    /\ SpecThumb
    /\ WF_vars(WorkerRecv)
    /\ []<>(worker.pc # "task")
    /\ WF_vars(ProcessResults)

----------------------------------------------------------------------------
(* the texture data of path when its file is processed alone with the      *)
(* Decrypter d: [panic, val]                                               *)
AloneTexture(d, path) ==
    LET f == set_content(RPGFile_new(path), files[path])
        alone == decrypt(d, files[path])
        image_data == IF RPGFile_is_encrypted(f) THEN alone.val ELSE files[path]
    IN  [panic |-> RPGFile_is_encrypted(f) /\ alone.tag = "Panic",
         val |-> IF RPGFile_is_encrypted(f) /\ alone.tag # "Ok" THEN None
                 ELSE IF image_load_from_memory(image_data) THEN Some("rgb")
                 ELSE None]

(* the call op made alone with the Decrypter d on the file of path *)
AloneCall(op, d, path) ==
    IF op = "decrypt" THEN decrypt(d, files[path])
    ELSE IF op = "encrypt" THEN encrypt(d, files[path])
    ELSE restore_header(d, files[path], file_type)

(* C22: decrypt, encrypt and restore_header never modify the Decrypter,    *)
(* its Key or the caller's input buffer, so for any interleaving of calls  *)
(* made by the GUI thread and the thumbnail worker on clones of one        *)
(* Decrypter every call returns the same result as the same call made      *)
(* alone on the same input: a task carries the Decrypter the GUI thread    *)
(* held when it was requested, the worker's result is that of processing   *)
(* the file alone with that Decrypter, a call of the GUI thread returns    *)
(* its result alone with the Decrypter of the GUI thread, and neither      *)
(* changes a Decrypter or a file.                                          *)
C22_CallsIndependent ==
    [][/\ Len(channels'.tasks) > Len(channels.tasks) =>
             Last(channels'.tasks).decrypter = decrypter
       /\ (worker.pc = "recv" /\ worker'.pc = "task") =>
             /\ worker'.task = Some(Head(channels.tasks))
             /\ decrypter' = decrypter /\ files' = files
       /\ (worker.pc = "task" /\ worker'.pc # "task") =>
             LET task == Unwrap(worker.task)
                 alone == AloneTexture(task.decrypter, task.path)
             IN  /\ alone.panic <=> worker'.pc = "dead"
                 /\ ~alone.panic =>
                       channels'.results =
                          Append(channels.results,
                                 ThumbnailResult(task.path, alone.val))
                 /\ decrypter' = decrypter /\ files' = files
                 /\ \A i \in 1..Len(channels'.tasks) :
                       channels'.tasks[i] = channels.tasks[i]
       /\ (log'.calls # log.calls
             /\ log'.op \in {"decrypt", "encrypt", "restore_header"}) =>
             /\ result' = AloneCall(log'.op, decrypter, log'.path)
             /\ data' = files[log'.path]
             /\ decrypter' = decrypter /\ files' = files
             /\ worker' = worker /\ channels' = channels
       /\ decrypter' # decrypter => (worker' = worker /\ channels' = channels)]_vars

(* the encrypted PNG was requested under the first key, the folder was     *)
(* given the second key, under which the GUI thread decrypted the file to  *)
(* other bytes, and the worker delivered the texture of the first key      *)
C22_Witness ==
    /\ channels.results = <<ThumbnailResult(PathB, Some("rgb"))>>
    /\ worker.pc = "recv"
    /\ decrypter # Decrypter_new(Key_new(<<"d","e","a","d","b","e","e","f">>))
    /\ hist = <<"decrypt">> /\ log.path = PathB
    /\ result.tag = "Ok" /\ result.val # PngPlain(5)

----------------------------------------------------------------------------
(* the tasks and results of path in flight: queued for the worker, being   *)
(* processed by it, or awaiting process_results                            *)
InFlight(path) ==
    Cardinality({i \in 1..Len(channels.tasks) : channels.tasks[i].path = path})
    + (IF worker.pc = "task" /\ Unwrap(worker.task).path = path THEN 1 ELSE 0)
    + Cardinality({i \in 1..Len(channels.results) : channels.results[i].path = path})

(* C26: after any sequence of request_thumbnail, process_results, remove   *)
(* and clear_cache interleaved with the worker thread, each path has at    *)
(* most one task or result in flight, and a path is in pending_loads       *)
(* exactly when it has one in flight.                                      *)
C26_OneInFlight ==
    \A path \in DOMAIN files :
        /\ InFlight(path) <= 1
        /\ path \in thumbnail_cache.pending_loads <=> InFlight(path) = 1

----------------------------------------------------------------------------
(* C27: every path marked pending by request_thumbnail is eventually       *)
(* unmarked, provided the worker thread runs fairly and process_results    *)
(* keeps being called.                                                     *)
C27_PendingUnmarked ==
    \A path \in {PathA, PathB, PathC, PathD} :
        (path \in thumbnail_cache.pending_loads)
            ~> (path \notin thumbnail_cache.pending_loads)

----------------------------------------------------------------------------
(* The ThumbnailCache under all its operations. The clock (now) advances   *)
(* between calls; insert, get, set_max_size and set_ttl are called with    *)
(* the paths of the folder and the settings of the UI.                     *)

(* time passes *)
Tick ==
    /\ now < MaxClock
    /\ now' = now + 1
    /\ UNCHANGED <<thumbnail_cache, channels, worker, log, managerVars, coreVars,
                   keyVars, extVars, fileVars>>

(* ThumbnailCache::insert *)
Insert ==
    /\ log.calls < MaxGuiCalls
    /\ \E path \in DOMAIN files :
         /\ log' = GuiCall("insert", path)
         /\ thumbnail_cache' \in insert(thumbnail_cache, path, now)
    /\ UNCHANGED <<channels, worker, now, managerVars, coreVars, keyVars, extVars,
                   fileVars>>

(* ThumbnailCache::get *)
Get ==
    /\ log.calls < MaxGuiCalls
    /\ \E path \in DOMAIN files :
         /\ log' = GuiCall("get", path)
         /\ thumbnail_cache' = get(thumbnail_cache, path, now).tc
    /\ UNCHANGED <<channels, worker, now, managerVars, coreVars, keyVars, extVars,
                   fileVars>>

(* ThumbnailCache::set_max_size *)
SetMaxSize ==
    /\ log.calls < MaxGuiCalls
    /\ \E max_size \in 0..MaxCacheSize :
         /\ max_size # thumbnail_cache.max_size
         /\ thumbnail_cache' \in set_max_size(thumbnail_cache, max_size, now)
    /\ log' = GuiCall("set_max_size", None)
    /\ UNCHANGED <<channels, worker, now, managerVars, coreVars, keyVars, extVars,
                   fileVars>>

(* ThumbnailCache::set_ttl *)
SetTtl ==
    /\ log.calls < MaxGuiCalls
    /\ \E ttl \in 1..(MaxClock + 1) :
         /\ ttl # thumbnail_cache.ttl
         /\ thumbnail_cache' = set_ttl(thumbnail_cache, ttl, now)
    /\ log' = GuiCall("set_ttl", None)
    /\ UNCHANGED <<channels, worker, now, managerVars, coreVars, keyVars, extVars,
                   fileVars>>

InitCache ==
    /\ InitBrowser
    /\ thumbnail_cache \in {ThumbnailCache_new(m, ttl) :
                              m \in 0..MaxCacheSize, ttl \in {1, MaxClock + 1}}

NextCache ==
    \/ Insert
    \/ Get
    \/ Remove
    \/ ClearCache
    \/ SetMaxSize
    \/ SetTtl
    \/ RequestThumbnail
    \/ ProcessResults
    \/ WorkerRecv
    \/ WorkerProcess
    \/ Tick

SpecCache == InitCache /\ [][NextCache]_vars

(* the entries a step takes out of the cache, the entry of the path        *)
(* inserted apart: it is replaced                                          *)
Evicted ==
    {e \in thumbnail_cache.cache :
       /\ \A o \in thumbnail_cache'.cache : o.path # e.path
       /\ ~(log'.op = "insert" /\ log'.path = e.path)}

(* C28: when insert finds the cache at capacity, or set_max_size shrinks   *)
(* the capacity, no entry is evicted while an entry inserted earlier than  *)
(* it remains in the cache.                                                *)
C28_OldestEvicted ==
    [][log'.op \in {"insert", "set_max_size"} /\ log'.calls = log.calls + 1
         => \A e \in Evicted :
              \A o \in thumbnail_cache.cache \cap thumbnail_cache'.cache :
                 o.timestamp >= e.timestamp]_vars

(* C29: the number of cached thumbnails is at most max_size, for every     *)
(* max_size including 0, and also when the inserted path is already        *)
(* cached.                                                                 *)
C29_AtMostMaxSize ==
    Cardinality(thumbnail_cache.cache) <= thumbnail_cache.max_size

----------------------------------------------------------------------------
(* CryptManager (crypt_manager/mod.rs) over the files of a game folder.    *)
(* files maps the path of every file to its content; a directory is a      *)
(* proper prefix of a file's path.                                         *)

(* Path::is_dir *)
is_dir(fs, path) ==
    \E p \in DOMAIN fs : Len(p) > Len(path) /\ SubSeq(p, 1, Len(path)) = path

(* std::fs::read_dir: the paths of the directory's entries, in no order *)
read_dir(fs, path) ==
    {SubSeq(p, 1, Len(path) + 1) :
       p \in {q \in DOMAIN fs : Len(q) > Len(path) /\ SubSeq(q, 1, Len(path)) = path}}

(* OsStr::cmp: a is less than b, byte by byte *)
RECURSIVE os_str_lt(_, _)
os_str_lt(a, b) ==
    IF b = <<>> THEN FALSE
    ELSE IF a = <<>> THEN TRUE
    ELSE IF Ord(Head(a)) # Ord(Head(b)) THEN Ord(Head(a)) < Ord(Head(b))
    ELSE os_str_lt(Tail(a), Tail(b))

(* sort_by(|a, b| a.file_name().cmp(&b.file_name())) of the paths of one    *)
(* directory: the path at place i has i - 1 paths before it                *)
sort_by_file_name(paths) ==
    [i \in 1..Cardinality(paths) |->
       CHOOSE p \in paths :
          Cardinality({q \in paths : os_str_lt(Last(q), Last(p))}) = i - 1]

(* the extensions the file browser lists *)
ListedExtensions ==
    { <<"p","n","g">>, <<"p","n","g","_">>, <<"r","p","g","m","v","p">>,
      <<"m","4","a">>, <<"m","4","a","_">>, <<"r","p","g","m","v","m">>,
      <<"o","g","g">>, <<"o","g","g","_">>, <<"r","p","g","m","v","o">>,
      <<"j","p","g">>, <<"j","p","e","g">>, <<"g","i","f">>, <<"b","m","p">>,
      <<"w","e","b","p">> }

(* the extensions FileEntry::new takes for encrypted *)
EncryptedExtensions ==
    { <<"p","n","g","_">>, <<"r","p","g","m","v","p">>, <<"m","4","a","_">>,
      <<"r","p","g","m","v","m">>, <<"o","g","g","_">>, <<"r","p","g","m","v","o">> }

(* FileEntry::new *)
FileEntry_new(path, is_folder) ==
    [path |-> path,
     is_folder |-> is_folder,
     is_encrypted |-> ~is_folder /\ Path_extension(path) # None
                        /\ Unwrap(Path_extension(path)) \in EncryptedExtensions]

(* FileEntry::recursive_collect_entries_flat(path, 0, &[]): no folder is    *)
(* expanded, the folders come first, then the files with a listed          *)
(* extension                                                               *)
recursive_collect_entries_flat(fs, path) ==
    CHOOSE all_entries \in
        {[i \in 1..Len(folders) |-> FileEntry_new(folders[i], TRUE)]
           \o [i \in 1..Len(listed) |-> FileEntry_new(listed[i], FALSE)] :
         folders \in {sort_by_file_name({p \in read_dir(fs, path) : is_dir(fs, p)})},
         listed \in {sort_by_file_name(
                       {p \in read_dir(fs, path) :
                          /\ p \in DOMAIN fs
                          /\ Path_extension(p) # None
                          /\ to_lowercase(Unwrap(Path_extension(p)))
                                \in ListedExtensions})}} : TRUE

(* HashMap::insert *)
map_insert(m, k, v) == [x \in DOMAIN m \cup {k} |-> IF x = k THEN v ELSE m[x]]

(* CryptSettings::default *)
CryptSettings_default ==
    [encryption_key |-> None, decrypt_path |-> None, rpgmaker_version |-> "MV",
     decrypter |-> None]

(* CryptManager::new *)
CryptManager_new == [settings |-> <<>>, current_folder |-> None]

(* CryptManager::get_settings *)
get_settings(cm) ==
    IF cm.current_folder = None THEN None
    ELSE IF Unwrap(cm.current_folder) \in DOMAIN cm.settings
      THEN Some(cm.settings[Unwrap(cm.current_folder)])
    ELSE None

(* CryptManager::get_decrypter *)
get_decrypter(cm) ==
    IF get_settings(cm) = None THEN None ELSE Unwrap(get_settings(cm)).decrypter

(* the extensions of the files a key is extracted from *)
KeyFileExtensions == { <<"p","n","g","_">>, <<"r","p","g","m","v","p">> }

(* CryptManager::try_extract_key: [panic, val], val the Option<Key> *)
try_extract_key(fs, path) ==
    IF Path_extension(path) = None
         \/ Unwrap(Path_extension(path)) \notin KeyFileExtensions
      THEN [panic |-> FALSE, val |-> None]
    ELSE IF path \notin DOMAIN fs THEN [panic |-> FALSE, val |-> None]
    ELSE detect_key_from_file(fs[path])

(* CryptSettings::update_encryption_key *)
CryptSettings_update_encryption_key(crypt_settings, key) ==
    [crypt_settings EXCEPT !.encryption_key = Some(key)]

(* CryptManager::update_encryption_key *)
CryptManager_update_encryption_key(cm, key) ==
    IF get_settings(cm) = None THEN cm
    ELSE [cm EXCEPT !.settings[Unwrap(cm.current_folder)] =
            [@ EXCEPT !.encryption_key = Some(key),
                      !.decrypter = Some(Decrypter_new(Some(key)))]]

(* the files WalkDir yields under path *)
walk(fs, path) ==
    {p \in DOMAIN fs : Len(p) > Len(path) /\ SubSeq(p, 1, Len(path)) = path}

(* CryptManager::set_current_directory: the managers it can leave, one for *)
(* every file the walk can meet first among those that give a key; panic   *)
(* when a file met before makes the extraction panic                       *)
set_current_directory(cm, fs, path) ==
    LET fresh == [settings |-> map_insert(cm.settings, path, CryptSettings_default),
                  current_folder |-> Some(path)]
    IN  UNION
          {{[panic |-> TRUE, cm |-> fresh] : k \in {t \in tried : t.panic}}
             \cup {[panic |-> FALSE,
                    cm |-> CryptManager_update_encryption_key(fresh, Unwrap(k.val))] :
                     k \in {t \in tried : ~t.panic /\ t.val # None}}
             \cup (IF \A t \in tried : ~t.panic /\ t.val = None
                     THEN {[panic |-> FALSE, cm |-> fresh]} ELSE {}) :
           tried \in {{try_extract_key(fs, p) : p \in walk(fs, path)}}}

(* the two-character pieces hex_str[i..i + 2] of handle_key_hex_input *)
HexPairs(s) == [k \in 1..(Len(s) \div 2) |-> SubSeq(s, 2 * k - 1, 2 * k)]

(* String::from_utf8_lossy: a byte that is no ASCII gives a character that  *)
(* is no ASCII                                                             *)
from_utf8_lossy(buf) ==
    [i \in 1..Len(buf) |-> IF buf[i] < 128 THEN Chr(buf[i]) ELSE "uni"]

(* CryptManager::handle_key_hex_input *)
handle_key_hex_input(cm, hex_str) ==
    LET stripped == SelectSeq(hex_str, LAMBDA c : c # " ")
        key_bytes == FilterParsed(HexPairs(stripped))
        key == Key_new(from_utf8_lossy(key_bytes))
    IN  IF key = None THEN cm
        ELSE CryptManager_update_encryption_key(cm, Unwrap(key))

(* the result of a handler with the files it leaves *)
Handled(res, fs) == [result |-> res, fs |-> fs]

(* the end of encrypt_image and decrypt_image: the content of f is written  *)
(* to decrypt_path joined with the path relative to the root, with the     *)
(* extension of f                                                          *)
write_output(cm, fs, path, f) ==
    LET root == Unwrap(cm.current_folder)
        crypt_settings == Unwrap(get_settings(cm))
        decrypt_path == IF crypt_settings.decrypt_path = None THEN root
                        ELSE Unwrap(crypt_settings.decrypt_path)
        relative_path == SubSeq(path, Len(root) + 1, Len(path))
        full_path == output_path(decrypt_path \o relative_path, f)
    IN  IF Len(path) < Len(root) \/ SubSeq(path, 1, Len(root)) # root
          THEN Handled(Err("Failed to get relative path"), fs)
        ELSE IF is_dir(fs, full_path) THEN Handled(Err("Is a directory"), fs)
        ELSE Handled(Ok(<<>>), map_insert(fs, full_path, Unwrap(f.content)))

(* CryptManager::encrypt_image *)
encrypt_image(cm, fs, path) ==
    IF cm.current_folder = None THEN Handled(Err("No root folder set"), fs)
    ELSE IF get_settings(cm) = None THEN Handled(Err("No settings set"), fs)
    ELSE IF get_decrypter(cm) = None THEN Handled(Err("No encryption key set"), fs)
    ELSE IF path \notin DOMAIN fs THEN Handled(Err("No such file"), fs)
    ELSE LET f == set_content(set_version(RPGFile_new(path),
                                          Unwrap(get_settings(cm)).rpgmaker_version),
                              fs[path])
             encrypted_data == encrypt(Unwrap(get_decrypter(cm)), Unwrap(f.content))
         IN  IF encrypted_data.tag = "Panic" THEN Handled(Panic, fs)
             ELSE IF encrypted_data.tag = "Err" THEN Handled(Err(encrypted_data.err), fs)
             ELSE write_output(cm, fs, path,
                               convert_extension(set_content(f, encrypted_data.val), FALSE))

(* CryptManager::decrypt_image *)
decrypt_image(cm, fs, path) ==
    IF cm.current_folder = None THEN Handled(Err("No root folder set"), fs)
    ELSE IF get_settings(cm) = None THEN Handled(Err("No settings set"), fs)
    ELSE IF get_decrypter(cm) = None THEN Handled(Err("No encryption key set"), fs)
    ELSE IF path \notin DOMAIN fs THEN Handled(Err("No such file"), fs)
    ELSE LET f == set_content(RPGFile_new(path), fs[path])
             d == Unwrap(get_decrypter(cm))
             decrypted_content == decrypt(d, Unwrap(f.content))
             restored_content ==
                 restore_header(d, decrypted_content.val, Unwrap(RPGFile_extension(f)))
         IN  IF ~RPGFile_is_encrypted(f) THEN Handled(Err("File is not encrypted"), fs)
             ELSE IF decrypted_content.tag = "Panic" THEN Handled(Panic, fs)
             ELSE IF decrypted_content.tag = "Err"
               THEN Handled(Err("Decryption failed"), fs)
             ELSE IF restored_content.tag = "Panic" THEN Handled(Panic, fs)
             ELSE IF restored_content.tag = "Err"
               THEN Handled(Err("Header restoration failed"), fs)
             ELSE write_output(cm, fs, path,
                               convert_extension(set_content(f, restored_content.val), TRUE))

(* the for loop of encrypt_folder (to_normal FALSE) and of decrypt_folder   *)
(* (to_normal TRUE) from the files fs on: the attempts made, each with its *)
(* result, the errors pushed, the files left, and whether an attempt       *)
(* panicked, which ends the loop                                           *)
RECURSIVE folder_loop(_, _, _, _, _, _)
folder_loop(cm, fs, entries, to_normal, attempts, errors) ==
    IF entries = <<>>
      THEN [panic |-> FALSE, attempts |-> attempts, errors |-> errors, fs |-> fs]
    ELSE IF Head(entries).is_folder \/ Head(entries).is_encrypted # to_normal
      THEN folder_loop(cm, fs, Tail(entries), to_normal, attempts, errors)
    ELSE CHOOSE l \in
           {IF h.result.tag = "Panic"
              THEN [panic |-> TRUE, errors |-> errors, fs |-> h.fs,
                    attempts |-> Append(attempts, [path |-> entry.path,
                                                   result |-> h.result])]
            ELSE IF h.result.tag = "Err"
              THEN folder_loop(cm, h.fs, Tail(entries), to_normal,
                               Append(attempts, [path |-> entry.path, result |-> h.result]),
                               Append(errors, [path |-> entry.path, e |-> h.result.err]))
            ELSE folder_loop(cm, h.fs, Tail(entries), to_normal,
                             Append(attempts, [path |-> entry.path, result |-> h.result]),
                             errors) :
            entry \in {Head(entries)},
            h \in {IF to_normal THEN decrypt_image(cm, fs, Head(entries).path)
                   ELSE encrypt_image(cm, fs, Head(entries).path)}} : TRUE

(* what encrypt_folder and decrypt_folder return: Ok(()) or the errors      *)
(* joined, a line for each                                                 *)
folder_result(l) ==
    IF l.panic THEN Panic ELSE IF l.errors = <<>> THEN Ok(<<>>) ELSE Err(l.errors)

(* CryptManager::encrypt_folder *)
encrypt_folder(cm, fs, path) ==
    CHOOSE l \in {folder_loop(cm, fs, entries, FALSE, <<>>, <<>>) :
                   entries \in {recursive_collect_entries_flat(fs, path)}} : TRUE

(* CryptManager::decrypt_folder *)
decrypt_folder(cm, fs, path) ==
    CHOOSE l \in {folder_loop(cm, fs, entries, TRUE, <<>>, <<>>) :
                   entries \in {recursive_collect_entries_flat(fs, path)}} : TRUE

(* FileEntry::collect_entries: folders first, then by name, the order of   *)
(* recursive_collect_entries_flat without expanded folders                 *)
collect_entries(fs, path) == recursive_collect_entries_flat(fs, path)

(* the loop of "Extract Key from PNG_/RPGMVP...": the key of the first     *)
(* entry that gives one, [panic, val]                                      *)
RECURSIVE first_key(_, _)
first_key(fs, entries) ==
    IF entries = <<>> THEN [panic |-> FALSE, val |-> None]
    ELSE CHOOSE r \in {IF k.panic \/ k.val # None THEN k
                       ELSE first_key(fs, Tail(entries)) :
                       k \in {try_extract_key(fs, Head(entries).path)}} : TRUE

----------------------------------------------------------------------------
(* The user of the file browser and of the settings window: opens a game   *)
(* folder, extracts a key from a folder or from a file, types a key, and   *)
(* encrypts or decrypts the files of a folder. log holds the last call,    *)
(* the attempts of a folder operation and what the call returned.          *)

GameG == <<<<"g">>>>

GameH == <<<<"h">>>>

Img == <<"i","m","g">>

(* a PNG encrypted under the second key *)
EncryptedPng2 ==
    encrypt(Decrypter_new(Key_new(
        <<"0","1","2","3","4","5","6","7","8","9","a","b","c","d","e","f",
          "f","e","d","c","b","a","9","8","7","6","5","4","3","2","1","0">>)),
        PngPlain(5)).val

(* the files on disk: an empty image, images plain and encrypted under two *)
(* keys, an encrypted extension on a file of 4 bytes and on a plain PNG,   *)
(* and a folder inside the folder                                          *)
GameFiles ==
    { (<<<<"g">>, Img, <<"a",".","p","n","g">>>> :> <<>>)
        @@ (<<<<"g">>, Img, <<"b",".","r","p","g","m","v","p">>>> :> EncryptedPng)
        @@ (<<<<"g">>, Img, <<"c",".","p","n","g","_">>>> :> Payload(4))
        @@ (<<<<"g">>, Img, <<"d",".","p","n","g">>>> :> PngPlain(5))
        @@ (<<<<"g">>, Img, <<"s","u","b">>, <<"f",".","p","n","g">>>> :> PngPlain(0))
        @@ (<<<<"h">>, Img, <<"e",".","r","p","g","m","v","p">>>> :> EncryptedPng2),
      (<<<<"g">>, Img, <<"a",".","p","n","g">>>> :> <<>>)
        @@ (<<<<"g">>, Img, <<"b",".","r","p","g","m","v","p">>>> :> EncryptedPng)
        @@ (<<<<"g">>, Img, <<"d",".","p","n","g">>>> :> PngPlain(5))
        @@ (<<<<"g">>, Img, <<"e",".","r","p","g","m","v","p">>>> :> PngPlain(0))
        @@ (<<<<"g">>, Img, <<"k",".","r","p","g","m","v","p">>>> :> EncryptedPng2)
        @@ (<<<<"g">>, Img, <<"s","u","b">>, <<"f",".","p","n","g">>>> :> PngPlain(0))
        @@ (<<<<"h">>, Img, <<"e",".","r","p","g","m","v","p">>>> :> EncryptedPng2) }

(* the texts typed into the key field: the key deadbeef as the hex of its  *)
(* characters, with spaces, a byte that is no ASCII, an odd length, and    *)
(* the empty text                                                          *)
HexInputs ==
    { <<"6","4"," ","6","5"," ","6","1"," ","6","4"," ","6","2"," ","6","5"," ","6","5"," ","6","6">>,
      <<"6","4","6","5","6">>,
      <<"f","f","6","4">>,
      <<"7","a","7","a">>,
      <<>> }

ManagerCall(op, path, attempts, res) ==
    [calls |-> log.calls + 1, op |-> op, path |-> path, attempts |-> attempts,
     result |-> res]

(* the application runs: no call has panicked *)
Running == log.calls < MaxGuiCalls /\ log.result.tag # "Panic"

(* the folders the file browser shows under the current folder *)
ShownFolders ==
    IF crypt_manager.current_folder = None THEN {}
    ELSE {p \in read_dir(files, Unwrap(crypt_manager.current_folder)) : is_dir(files, p)}

(* the files the file browser shows in those folders *)
ShownFiles ==
    UNION {{entries[i].path : i \in 1..Len(entries)} :
             entries \in {collect_entries(files, p) : p \in ShownFolders}}

InitManager ==
    /\ decrypter = Decrypter_new(None) /\ file_type = "PNG"
    /\ orig = <<>> /\ data = <<>> /\ hist = <<>>
    /\ result = NoResult /\ verdict = "none" /\ fed = FALSE
    /\ KeyIdle /\ ExtIdle /\ FileIdle
    /\ thumbnail_cache = None /\ channels = None /\ worker = None /\ now = 0
    /\ log = [calls |-> 0, op |-> "new", path |-> None, attempts |-> <<>>,
              result |-> Ok(<<>>)]
    /\ crypt_manager = CryptManager_new
    /\ files \in GameFiles

(* CryptManager::set_current_directory *)
SetCurrentDirectory ==
    /\ Running
    /\ \E path \in {GameG, GameH} :
         \E o \in set_current_directory(crypt_manager, files, path) :
            /\ crypt_manager' = o.cm
            /\ log' = ManagerCall("set_current_directory", path, <<>>,
                                  IF o.panic THEN Panic ELSE Ok(<<>>))
    /\ UNCHANGED files
    /\ UNCHANGED <<thumbnail_cache, channels, worker, now, coreVars, keyVars, extVars,
                   fileVars>>

(* the folder menu "Extract Key from PNG_/RPGMVP...": collect_entries, and  *)
(* CryptManager::update_encryption_key with the first key found            *)
ExtractKeyFromFolder ==
    /\ Running
    /\ \E path \in ShownFolders :
         \E k \in {first_key(files, entries) :
                    entries \in {collect_entries(files, path)}} :
            /\ crypt_manager' =
                 IF k.panic \/ k.val = None THEN crypt_manager
                 ELSE CryptManager_update_encryption_key(crypt_manager, Unwrap(k.val))
            /\ log' = ManagerCall("extract_key_from_folder", path, <<>>,
                                  IF k.panic THEN Panic ELSE Ok(<<>>))
    /\ UNCHANGED files
    /\ UNCHANGED <<thumbnail_cache, channels, worker, now, coreVars, keyVars, extVars,
                   fileVars>>

(* the file menu "Extract Key" on a png_ or rpgmvp file: try_extract_key   *)
(* and CryptSettings::update_encryption_key on the settings of the current *)
(* folder                                                                  *)
ExtractKeyFromFile ==
    /\ Running
    /\ get_settings(crypt_manager) # None
    /\ \E path \in ShownFiles :
         /\ Path_extension(path) # None
         /\ Unwrap(Path_extension(path)) \in KeyFileExtensions
         /\ \E k \in {try_extract_key(files, path)} :
              /\ crypt_manager' =
                   IF k.panic \/ k.val = None THEN crypt_manager
                   ELSE [crypt_manager EXCEPT
                           !.settings[Unwrap(crypt_manager.current_folder)] =
                              CryptSettings_update_encryption_key(@, Unwrap(k.val))]
              /\ log' = ManagerCall("extract_key_from_file", path, <<>>,
                                    IF k.panic THEN Panic ELSE Ok(<<>>))
    /\ UNCHANGED files
    /\ UNCHANGED <<thumbnail_cache, channels, worker, now, coreVars, keyVars, extVars,
                   fileVars>>

(* the key field of the settings window: CryptManager::handle_key_hex_input *)
HandleKeyHexInput ==
    /\ Running
    /\ get_settings(crypt_manager) # None
    /\ \E hex_str \in HexInputs :
         crypt_manager' = handle_key_hex_input(crypt_manager, hex_str)
    /\ log' = ManagerCall("handle_key_hex_input", None, <<>>, Ok(<<>>))
    /\ UNCHANGED files
    /\ UNCHANGED <<thumbnail_cache, channels, worker, now, coreVars, keyVars, extVars,
                   fileVars>>

(* the folder menu "Encrypt All Files": CryptManager::encrypt_folder *)
EncryptFolder ==
    /\ Running
    /\ \E path \in ShownFolders :
         \E l \in {encrypt_folder(crypt_manager, files, path)} :
            /\ files' = l.fs
            /\ log' = ManagerCall("encrypt_folder", path, l.attempts, folder_result(l))
    /\ UNCHANGED crypt_manager
    /\ UNCHANGED <<thumbnail_cache, channels, worker, now, coreVars, keyVars, extVars,
                   fileVars>>

(* the folder menu "Decrypt All Files": CryptManager::decrypt_folder *)
DecryptFolder ==
    /\ Running
    /\ \E path \in ShownFolders :
         \E l \in {decrypt_folder(crypt_manager, files, path)} :
            /\ files' = l.fs
            /\ log' = ManagerCall("decrypt_folder", path, l.attempts, folder_result(l))
    /\ UNCHANGED crypt_manager
    /\ UNCHANGED <<thumbnail_cache, channels, worker, now, coreVars, keyVars, extVars,
                   fileVars>>

NextManager ==
    \/ SetCurrentDirectory
    \/ ExtractKeyFromFolder
    \/ ExtractKeyFromFile
    \/ HandleKeyHexInput
    \/ EncryptFolder
    \/ DecryptFolder

SpecManager == InitManager /\ [][NextManager]_vars

(* the attempts a folder operation has to make on the entries listed: the  *)
(* files that are not encrypted (encrypt_folder) or encrypted              *)
(* (decrypt_folder), in listing order                                      *)
ToAttempt(fs, path, to_normal) ==
    SelectSeq(recursive_collect_entries_flat(fs, path),
              LAMBDA e : ~e.is_folder /\ e.is_encrypted = to_normal)

(* the attempts of the last call that failed *)
FailedAttempts(attempts) == SelectSeq(attempts, LAMBDA a : a.result.tag # "Ok")

(* C23: encrypt_folder (decrypt_folder) attempts encrypt_image             *)
(* (decrypt_image) exactly once on every collected non-folder entry that   *)
(* is not encrypted (is encrypted), in listing order, whether or not       *)
(* earlier entries failed; it returns Ok exactly when no attempt failed    *)
(* and otherwise an Err with one message per failed entry.                 *)
C23_FolderAttemptsAll ==
    [][log'.op \in {"encrypt_folder", "decrypt_folder"} /\ log'.calls = log.calls + 1
         => LET expected == ToAttempt(files, log'.path, log'.op = "decrypt_folder")
                failed == FailedAttempts(log'.attempts)
            IN  /\ Len(log'.attempts) = Len(expected)
                /\ \A i \in 1..Len(expected) : log'.attempts[i].path = expected[i].path
                /\ log'.result.tag = "Ok" <=> failed = <<>>
                /\ log'.result.tag # "Ok" =>
                      /\ log'.result.tag = "Err"
                      /\ Len(log'.result.err) = Len(failed)
                      /\ \A i \in 1..Len(failed) :
                            log'.result.err[i].path = failed[i].path]_vars

(* C30: for every folder's settings, a Decrypter is present and holds      *)
(* exactly encryption_key whenever encryption_key is set.                  *)
C30_DecrypterHoldsKey ==
    \A folder \in DOMAIN crypt_manager.settings :
        LET s == crypt_manager.settings[folder]
        IN  s.encryption_key # None =>
              /\ s.decrypter # None
              /\ Unwrap(s.decrypter).key = s.encryption_key

====
